---- MODULE Spec2Model ----
(***************************************************************************)
(* A model of snimap: the flattening of the nested configuration into the  *)
(* host -> SNI table (src/src/config/format.rs) and the reverse proxy      *)
(* handler with its caching resolver (src/src/handler.rs,                  *)
(* src/src/resolver.rs).                                                   *)
(*                                                                         *)
(* Rust Option<T> values are modelled as sequences of length at most one:  *)
(* None is <<>> and Some(v) is <<v>>.                                      *)
(***************************************************************************)
EXTENDS Naturals, Sequences, FiniteSets, TLC

\* ------------------------------------------------------------------------
\* Bounds of the model
\* ------------------------------------------------------------------------

\* Number of Groups declared in a Config.
MaxGroups == 2

\* Number of Mappings (Dns) declared in one Group.
MaxDns == 2

\* ------------------------------------------------------------------------
\* Values
\* ------------------------------------------------------------------------

None == <<>>

Some(v) == <<v>>

\* Option<bool>
OptBool == {None, Some(TRUE), Some(FALSE)}

\* Origin hostnames a Mapping may declare.
Hostnames == {"a.test", "b.test"}

\* Names a Group or a Mapping may give as sni: another origin or a front.
SniNames == {"a.test", "front.test"}

\* Values of the address field of a Mapping.
Addresses == {"1.1.1.1"}

\* Option<T>::unwrap_or
UnwrapOr(o, default) == IF o = None THEN default ELSE o[1]

\* bool::then_some
ThenSome(b, v) == IF b THEN Some(v) ELSE None

\* The three Switchable impls only differ in the receiver type.
Enable(x) == UnwrapOr(x.enable, TRUE)

EnableSni(x) == UnwrapOr(x.enable_sni, TRUE)

\* struct Config without its groups (they are traversed one at a time).
\* Inputs: enable is set explicitly, enable_sni is unset or false.
RootSet == [enable : {Some(TRUE), Some(FALSE)}, enable_sni : {None, Some(FALSE)}]

\* struct Group without its name and its dnses.
\* Inputs: enable is unset or false, enable_sni is set explicitly.
GroupSet ==
    [enable : {None, Some(FALSE)}, enable_sni : {Some(TRUE), Some(FALSE)},
     sni : {None} \cup {Some(s) : s \in SniNames}]

\* struct Dns
DnsSet ==
    [enable : OptBool, enable_sni : OptBool, hostname : Hostnames,
     sni : {None} \cup {Some(s) : s \in SniNames},
     address : {None} \cup {Some(a) : a \in Addresses}]

\* ------------------------------------------------------------------------
\* ConfigMap: HashMap<Hostname, (SocketAddrRaw, Sni)>
\* ------------------------------------------------------------------------

\* ConfigMap::new
EmptyMap == [k \in {} |-> None]

\* ConfigMap::insert (HashMap::insert replaces the value of an existing key)
MapInsert(m, k, v) == [x \in DOMAIN m \cup {k} |-> IF x = k THEN v ELSE m[x]]

\* Mutant of MapMerge: a key m already has keeps its value.
MapMerge_KeepsFirst(m, other) ==
    [x \in DOMAIN m \cup DOMAIN other |-> IF x \in DOMAIN m THEN m[x] ELSE other[x]]

\* ConfigMap::merge: every (k, v) of other is inserted into m
MapMerge(m, other) ==
    [x \in DOMAIN m \cup DOMAIN other |-> IF x \in DOMAIN other THEN other[x] ELSE m[x]]

\* Mutant of FromDns: the Mapping's sni is ignored, the hostname is kept.
FromDns_IgnoresSni(dns) ==
    IF Enable(dns) /\ dns.address # None
    THEN MapInsert(EmptyMap, dns.hostname,
                   [addr |-> dns.address[1],
                    sni |-> ThenSome(EnableSni(dns), dns.hostname)])
    ELSE EmptyMap

\* Mutant of FromDns: a disabled Mapping is inserted too.
FromDns_IgnoresEnable(dns) ==
    IF dns.address # None
    THEN MapInsert(EmptyMap, dns.hostname,
                   [addr |-> dns.address[1],
                    sni |-> ThenSome(EnableSni(dns), UnwrapOr(dns.sni, dns.hostname))])
    ELSE EmptyMap

\* Mutant of FromDns: the sni is Some whatever enable_sni is.
FromDns_AlwaysSni(dns) ==
    IF Enable(dns) /\ dns.address # None
    THEN MapInsert(EmptyMap, dns.hostname,
                   [addr |-> dns.address[1],
                    sni |-> Some(UnwrapOr(dns.sni, dns.hostname))])
    ELSE EmptyMap

\* impl From<Dns> for ConfigMap
FromDns(dns) ==
    IF Enable(dns) /\ dns.address # None
    THEN MapInsert(EmptyMap, dns.hostname,
                   [addr |-> dns.address[1],
                    sni |-> ThenSome(EnableSni(dns), UnwrapOr(dns.sni, dns.hostname))])
    ELSE EmptyMap

\* Mutant of GroupAdjustDns: the Group's sni only fills in a missing sni.
GroupAdjustDns_MappingSniFirst(g, d) ==
    IF EnableSni(g)
    THEN IF g.sni # None /\ d.sni = None THEN [d EXCEPT !.sni = g.sni] ELSE d
    ELSE [d EXCEPT !.enable_sni = Some(FALSE), !.sni = None]

\* The closure of impl From<Group>: the Dns as changed before it is merged.
GroupAdjustDns(g, d) ==
    IF EnableSni(g)
    THEN IF g.sni # None THEN [d EXCEPT !.sni = g.sni] ELSE d
    ELSE [d EXCEPT !.enable_sni = Some(FALSE), !.sni = None]

\* Mutant of ConfigAdjustGroup: the Group's enable_sni is left as declared.
ConfigAdjustGroup_KeepsEnableSni(c, g) ==
    IF ~EnableSni(c)
    THEN [g EXCEPT !.sni = None]
    ELSE g

\* The closure of impl From<Config>: the Group as changed before it is merged.
ConfigAdjustGroup(c, g) ==
    IF ~EnableSni(c)
    THEN [g EXCEPT !.enable_sni = Some(FALSE), !.sni = None]
    ELSE g

\* One turn of the loop of impl From<Group>, inside the loop of impl
\* From<Config>: the config_map m of From<Group> after the Mapping d of the
\* Group g of the Config c. No loop runs unless c and g are enabled.
DnsMerged(c, g, m, d) ==
    LET ga == ConfigAdjustGroup(c, g)
    IN IF Enable(c) /\ Enable(ga)
       THEN MapMerge(m, FromDns(GroupAdjustDns(ga, d)))
       ELSE m

\* Mutant of SplitSni: a key whose Sni is None is dropped.
SplitSni_DropsDisabled(m) == [h \in {k \in DOMAIN m : m[k].sni # None} |-> m[h].sni]

\* ConfigMap::split, the SniMap half: every key keeps its Sni.
SplitSni(m) == [h \in DOMAIN m |-> m[h].sni]

\* str::parse::<IpAddr>
ParseIpOk(a) == a \in {"1.1.1.1", "2.2.2.2"}

\* ConfigMap::split, the DomainMap half, for one iteration order of the
\* HashMap: the hostname and then the sni name are inserted for every entry
\* whose address parses.
RECURSIVE SplitDomain(_, _, _)
SplitDomain(m, order, acc) ==
    IF order = <<>> THEN acc
    ELSE LET h == Head(order)
             e == m[h]
             a1 == IF ParseIpOk(e.addr) THEN MapInsert(acc, h, e.addr) ELSE acc
             a2 == IF ParseIpOk(e.addr) /\ e.sni # None
                   THEN MapInsert(a1, e.sni[1], e.addr) ELSE a1
         IN SplitDomain(m, Tail(order), a2)

\* The iteration orders of a HashMap with the key set S.
Orders(S) ==
    {o \in [1..Cardinality(S) -> S] : \A i, j \in 1..Cardinality(S) : i # j => o[i] # o[j]}

\* ------------------------------------------------------------------------
\* What the configuration declares (history, read by the properties only)
\* ------------------------------------------------------------------------

\* enable is true or unset at the Root, at the Group and at the Mapping.
EffEnable(c, g, d) == Enable(c) /\ Enable(g) /\ Enable(d)

\* enable_sni is true or unset at the Root, at the Group and at the Mapping.
EffEnableSni(c, g, d) == EnableSni(c) /\ EnableSni(g) /\ EnableSni(d)

\* The effective sni: the Group's when it has one, else the Mapping's own.
EffSni(g, d) == IF g.sni # None THEN g.sni ELSE d.sni

\* The decision table of the specification, as an SniMap value:
\* Disable is None, Override(s) is Some(s), Preserve(h) is Some(h).
TableDecision(c, g, d) ==
    IF ~EffEnableSni(c, g, d) THEN None
    ELSE IF EffSni(g, d) # None /\ EffSni(g, d)[1] # d.hostname
         THEN Some(EffSni(g, d)[1])
         ELSE Some(d.hostname)

\* n: effectively enabled Mappings declared (0, 1, 2 for two or more);
\* dec: Some(table decision of the last of them); n_addr and dec_addr: the
\* same for the effectively enabled Mappings with an address; off: a Mapping
\* with an address that is not effectively enabled was declared.
NoDecl == [n |-> 0, dec |-> None, n_addr |-> 0, dec_addr |-> None, off |-> FALSE]

Bump(n) == IF n < 2 THEN n + 1 ELSE 2

\* The summary s of the declarations of a hostname after its Mapping d.
Declare(s, c, g, d) ==
    IF ~EffEnable(c, g, d) THEN [s EXCEPT !.off = @ \/ d.address # None]
    ELSE [n |-> Bump(s.n),
          off |-> s.off,
          dec |-> Some(TableDecision(c, g, d)),
          n_addr |-> IF d.address # None THEN Bump(s.n_addr) ELSE s.n_addr,
          dec_addr |-> IF d.address # None THEN Some(TableDecision(c, g, d)) ELSE s.dec_addr]

\* ------------------------------------------------------------------------
\* State
\* ------------------------------------------------------------------------

VARIABLES
    fpc,         \* where the flattening is: "config", "group", "flattened", "split"
    root,        \* the Config being flattened (enable, enable_sni)
    group,       \* Some(the Group being converted) or None
    ngroups,     \* Groups taken from config.groups so far
    ndns,        \* Mappings taken from the current Group's dnses so far
    group_map,   \* config_map of impl From<Group>
    config_map,  \* config_map of impl From<Config>
    sni_map,     \* SniMap returned by split
    domain_map,  \* DomainMap returned by split
    probe,       \* history: the hostname whose declarations are recorded
    decl,        \* history: what the Config declared for probe so far
    hpc,         \* where the request being served is in reverse_proxy / forward
    req,         \* Some(the downstream request being served) or None
    host,        \* the host reverse_proxy extracted from it
    fwd,         \* the arguments forward was entered with (client, sni, head)
    upstream,    \* the awc_request handed to send_stream
    looked,      \* the DnsCache::lookup made for this request and how it resolved
    addrs,       \* what that lookup returned
    connected,   \* the upstream connection: address and ClientHello server_name
    response,    \* what reverse_proxy returned
    white_list,  \* DnsCache.white_list
    cache,       \* DnsCache.cache
    nsent,       \* upstream requests sent for the request being served
    received,    \* the upstream's response send_stream returned
    lk,          \* the lookup each caller of DnsCache::lookup is in
    lock,        \* the holder of the Mutex around DnsCache.cache
    asked,       \* history: Some(the (host, port) pairs lookup was called with)
    again,       \* Some(the SniMap of flattening the flattened entries again)
    mpc,         \* where main is: "start", "bind", "hook", "waiting", "restore", ...
    hosts_file,  \* the content of the hosts file
    host_all,    \* the hostnames main edits into the hosts file
    original,    \* history: the content of the hosts file when main started
    signalled,   \* history: SIGINT has arrived
    restored,    \* Some(the result of edit_hosts(&Vec::new())) once it returned
    inflight,    \* requests the server is serving
    old_hosts,   \* the argument old_hosts of the last call of gen_hosts
    gen_fn,      \* which gen_hosts that was: "hosts" (hosts.rs) or "utils" (utils.rs)
    job,         \* where each job of test_dns_cache_clone is
    chan,        \* the messages sent on the channel of test_dns_cache_clone
    rpc,         \* where the warp main is in registering hostnames with its clients
    reg_config,  \* the Config the warp main read
    reg_group,   \* the Group its loop over config.group() is in
    HOSTS_ENABLE_SNI,            \* static HOSTS_ENABLE_SNI
    HOSTS_DISABLE_SNI,           \* static HOSTS_DISABLE_SNI
    client_builder,              \* resolve() overrides of the client that sends SNI
    client_builder_disable_sni,  \* resolve() overrides of the client that sends none
    nvisit,      \* Mappings the loops have visited
    visit,       \* history: the last Mapping visited and where it was registered
    spider_cache,  \* Resolver.cache of the dns crate
    sp,          \* where each caller of Resolver::lookup_ip is
    first_ip,    \* history: the IP inserted first into Resolver.cache
    qpc,         \* where a Request is between from_bytes and send_to
    data,        \* the bytes Request::from_bytes is called with
    request,     \* the Request it returned, as headers_filter left it
    written,     \* Some(the bytes send_to wrote) once it has
    ppc,         \* where HTTProxy::serve is with its connection
    dns_on_web,  \* HTTProxy.dns_on_web
    client_tx,   \* the chunks the client has yet to send, in the order of its reads
    buf,         \* buf of handshake
    http_request,  \* http_request of handshake
    server_name, \* HTTProxy.server_name
    server_addr, \* server_addr of handshake: Some("SocketAddr") or Some("ServerName")
    server,      \* Some("connected") once TcpStream::connect returned the server
    kind,        \* Some(the kind of the ProxyError handshake returned)
    replies,     \* the Responds serve and handshake wrote to the client, and how that went
    server_rx,   \* the bytes written to the server
    server_tx,   \* the chunks the server has yet to send
    client_rx,   \* the bytes of the server written to the client
    tunnel,      \* the two pipes of the tunnel
    client_sent, \* history: the bytes the client has sent
    server_sent, \* history: the bytes the server has sent
    cause,       \* history: why handshake failed
    tpc,         \* where the resolution of the addresses is: "resolving" or "done"
    config,      \* Some(the Config that resolve() is called on), format.rs
    hosts,       \* Some(the Hosts that lookup_all() is called on), config.rs
    before,      \* history: config and hosts when the call started
    answers,     \* history: the answer of each lookup made, by the place of its Mapping
    resolved     \* Some(what the call returned)

flatten_vars ==
    <<fpc, root, group, ngroups, ndns, group_map, config_map, sni_map, domain_map, probe, decl>>

proxy_vars ==
    <<hpc, req, host, fwd, upstream, looked, addrs, connected, response, white_list, cache,
      nsent, received>>

resolver_vars == <<lk, lock>>

main_vars == <<mpc, hosts_file, host_all, original, signalled, restored, inflight>>

gen_vars == <<old_hosts, gen_fn>>

test_vars == <<job, chan>>

reg_vars ==
    <<rpc, reg_config, reg_group, HOSTS_ENABLE_SNI, HOSTS_DISABLE_SNI, client_builder,
      client_builder_disable_sni, nvisit, visit>>

spider_vars == <<spider_cache, sp, first_ip>>

request_vars == <<qpc, data, request, written>>

httproxy_vars ==
    <<ppc, dns_on_web, client_tx, buf, http_request, server_name, server_addr, server, kind, replies,
      server_rx, server_tx, client_rx, tunnel, client_sent, server_sent, cause>>

tree_vars == <<tpc, config, hosts, before, answers, resolved>>

late_vars == <<reg_vars, spider_vars, request_vars, httproxy_vars, tree_vars>>

early_vars ==
    <<flatten_vars, proxy_vars, resolver_vars, asked, again, main_vars, gen_vars, test_vars>>

other_vars == <<asked, again, main_vars, gen_vars, test_vars, late_vars>>

vars == <<flatten_vars, proxy_vars, resolver_vars, other_vars>>

\* Callers of DnsCache::lookup running at once.
MaxTasks == 2
Tasks == 1..MaxTasks

\* A caller that is not inside lookup.
IdleTask == [pc |-> "idle", host |-> None, port |-> None, pre |-> None, calls |-> {},
             out |-> None, ret |-> None]

\* Nobody is inside DnsCache::lookup through a direct call and the Mutex is
\* free.
NoLookups ==
    /\ lk = [t \in Tasks |-> IdleTask]
    /\ lock = None

\* main is not running and the hosts file is not looked at.
NoMain ==
    /\ mpc = "off"
    /\ hosts_file = <<>>
    /\ host_all = <<>>
    /\ original = <<>>
    /\ signalled = FALSE
    /\ restored = None
    /\ inflight = 0

\* gen_hosts was not called.
NoGen ==
    /\ old_hosts = None
    /\ gen_fn = None

\* test_dns_cache_clone is not running.
NoTest ==
    /\ job = <<>>
    /\ chan = <<>>

\* The warp main is not running.
NoReg ==
    /\ rpc = "off"
    /\ reg_config = None
    /\ reg_group = None
    /\ HOSTS_ENABLE_SNI = <<>>
    /\ HOSTS_DISABLE_SNI = <<>>
    /\ client_builder = {}
    /\ client_builder_disable_sni = {}
    /\ nvisit = 0
    /\ visit = None

\* The Resolver of the dns crate is not in use.
NoSpider ==
    /\ spider_cache = None
    /\ sp = <<>>
    /\ first_ip = None

\* No Request of the http crate is being parsed.
NoRequestBytes ==
    /\ qpc = "off"
    /\ data = <<>>
    /\ request = None
    /\ written = None

\* No HTTProxy serves a connection.
NoHTTProxy ==
    /\ ppc = "off"
    /\ dns_on_web = FALSE
    /\ client_tx = <<>>
    /\ buf = <<>>
    /\ http_request = None
    /\ server_name = None
    /\ server_addr = None
    /\ server = None
    /\ kind = None
    /\ replies = <<>>
    /\ server_rx = <<>>
    /\ server_tx = <<>>
    /\ client_rx = <<>>
    /\ tunnel = None
    /\ client_sent = <<>>
    /\ server_sent = <<>>
    /\ cause = None

\* No address is being resolved over a Config or over Hosts.
NoTree ==
    /\ tpc = "off"
    /\ config = None
    /\ hosts = None
    /\ before = None
    /\ answers = <<>>
    /\ resolved = None

\* None of the programs beside the server is running.
NoLate ==
    /\ NoReg
    /\ NoSpider
    /\ NoRequestBytes
    /\ NoHTTProxy
    /\ NoTree

\* Neither main nor a test is running, and no history is recorded.
NoOther ==
    /\ asked = None
    /\ again = None
    /\ NoMain
    /\ NoGen
    /\ NoTest
    /\ NoLate

\* No request is being served: every local of reverse_proxy is unset.
NoRequest ==
    /\ req = None
    /\ host = None
    /\ fwd = None
    /\ upstream = None
    /\ looked = None
    /\ addrs = None
    /\ connected = None
    /\ response = None
    /\ nsent = 0
    /\ received = None

\* ------------------------------------------------------------------------
\* Flattening: impl From<Config> for ConfigMap, then ConfigMap::split
\* ------------------------------------------------------------------------

FlattenInit ==
    /\ fpc = "config"
    /\ root \in RootSet
    /\ group = None
    /\ ngroups = 0
    /\ ndns = 0
    /\ group_map = EmptyMap
    /\ config_map = EmptyMap
    /\ sni_map = EmptyMap
    /\ domain_map = EmptyMap
    /\ probe \in Hostnames
    /\ decl = NoDecl
    /\ hpc = "off"
    /\ NoRequest
    /\ NoLookups
    /\ white_list = {}
    /\ cache = EmptyMap
    /\ NoOther

\* config.groups.into_iter().for_each: the next Group g of the Config. When
\* config.enable() is false the loop is never run and g is only declared.
NextGroup(g) ==
    /\ fpc = "config"
    /\ ngroups < MaxGroups
    /\ fpc' = "group"
    /\ group' = Some(g)
    /\ ngroups' = ngroups + 1
    /\ ndns' = 0
    /\ group_map' = EmptyMap
    /\ UNCHANGED <<proxy_vars, resolver_vars>>
    /\ UNCHANGED other_vars
    /\ UNCHANGED <<root, config_map, sni_map, domain_map, probe, decl>>

\* dns.into_iter().for_each inside impl From<Group>: the next Mapping d of
\* the current Group. The Group was changed by the closure of From<Config>
\* before; the loop runs only when both the Config and the Group are enabled.
NextDns(d) ==
    /\ fpc = "group"
    /\ ndns < MaxDns
    /\ ndns' = ndns + 1
    /\ group_map' = DnsMerged(root, group[1], group_map, d)
    /\ decl' = IF d.hostname = probe THEN Declare(decl, root, group[1], d) ELSE decl
    /\ UNCHANGED <<proxy_vars, resolver_vars>>
    /\ UNCHANGED other_vars
    /\ UNCHANGED <<fpc, root, group, ngroups, config_map, sni_map, domain_map, probe>>

\* impl From<Group> returns and config_map.merge(g) of From<Config> inserts
\* its entries.
EndGroup ==
    /\ fpc = "group"
    /\ fpc' = "config"
    /\ config_map' = IF Enable(root) THEN MapMerge(config_map, group_map) ELSE config_map
    /\ group' = None
    /\ group_map' = EmptyMap
    /\ ndns' = 0
    /\ UNCHANGED <<proxy_vars, resolver_vars>>
    /\ UNCHANGED other_vars
    /\ UNCHANGED <<root, ngroups, sni_map, domain_map, probe, decl>>

\* impl From<Config> returns config_map.
EndConfig ==
    /\ fpc = "config"
    /\ fpc' = "flattened"
    /\ UNCHANGED <<proxy_vars, resolver_vars>>
    /\ UNCHANGED other_vars
    /\ UNCHANGED <<root, group, ngroups, ndns, group_map, config_map, sni_map, domain_map,
                   probe, decl>>

\* ConfigMap::split
Split ==
    /\ fpc = "flattened"
    /\ fpc' = "split"
    /\ sni_map' = SplitSni(config_map)
    /\ \E order \in Orders(DOMAIN config_map) :
           domain_map' = SplitDomain(config_map, order, EmptyMap)
    /\ UNCHANGED <<proxy_vars, resolver_vars>>
    /\ UNCHANGED other_vars
    /\ UNCHANGED <<root, group, ngroups, ndns, group_map, config_map, probe, decl>>

FlattenNext ==
    \/ \E g \in GroupSet : NextGroup(g)
    \/ \E d \in DnsSet : NextDns(d)
    \/ EndGroup
    \/ EndConfig
    \/ Split

SpecFlatten == FlattenInit /\ [][FlattenNext]_vars

\* ------------------------------------------------------------------------
\* Properties of the flattening
\* ------------------------------------------------------------------------

\* The SniMap value the flattening has for hostname h in map m, if any.
HasSni(m, h, v) == h \in DOMAIN m /\ m[h].sni = v

\* C4 as stated: in every turn of the Group loop, a Mapping whose enable
\* chain and enable_sni chain are all true gets the entry Override(s) when
\* its effective sni is Some(s) with s # hostname, and Preserve(hostname)
\* otherwise. Fails for a Mapping without an address: it gets no entry.
C4_Original ==
    fpc = "group" =>
        \A d \in DnsSet :
            (EffEnable(root, group[1], d) /\ EffEnableSni(root, group[1], d))
            => LET s == EffSni(group[1], d)
               IN HasSni(DnsMerged(root, group[1], group_map, d), d.hostname,
                         IF s # None /\ s[1] # d.hostname THEN Some(s[1]) ELSE Some(d.hostname))

\* C4 amended: the same for every such Mapping whose address is set; and
\* once the Config is split, the SniMap value of a hostname whose last
\* effectively enabled Mapping with an address was sni-enabled is that
\* Mapping's Override/Preserve decision.
C4_SniEnabledDecision ==
    /\ fpc = "group" =>
           \A d \in DnsSet :
               (/\ EffEnable(root, group[1], d)
                /\ EffEnableSni(root, group[1], d)
                /\ d.address # None)
               => LET s == EffSni(group[1], d)
                  IN HasSni(DnsMerged(root, group[1], group_map, d), d.hostname,
                            IF s # None /\ s[1] # d.hostname
                            THEN Some(s[1]) ELSE Some(d.hostname))
    /\ (fpc = "split" /\ decl.n_addr > 0 /\ decl.dec_addr[1] # None)
           => (probe \in DOMAIN sni_map /\ sni_map[probe] = decl.dec_addr[1])

\* C4 witness: an Override entry made under an all-true chain has reached
\* the SniMap.
C4_Witness ==
    /\ fpc = "split"
    /\ decl.n_addr > 0
    /\ probe \in DOMAIN sni_map
    /\ sni_map[probe] = Some("front.test")
    /\ decl.dec_addr = Some(Some("front.test"))

\* C5 as stated: an effectively enabled Mapping with enable_sni false at
\* the Root, at its Group or at itself gets the entry Disable (None).
\* Fails for a Mapping without an address: it gets no entry.
C5_Original ==
    fpc = "group" =>
        \A d \in DnsSet :
            (EffEnable(root, group[1], d) /\ ~EffEnableSni(root, group[1], d))
            => HasSni(DnsMerged(root, group[1], group_map, d), d.hostname, None)

\* C5 amended: the same for every such Mapping whose address is set,
\* whatever sni the Group or the Mapping sets and whatever enable_sni is
\* below the level that is false; and in the SniMap such a Mapping, when the
\* last declared for its hostname, leaves None.
C5_SniDisabledDecision ==
    /\ fpc = "group" =>
           \A d \in DnsSet :
               (/\ EffEnable(root, group[1], d)
                /\ ~EffEnableSni(root, group[1], d)
                /\ d.address # None)
               => HasSni(DnsMerged(root, group[1], group_map, d), d.hostname, None)
    /\ (fpc = "split" /\ decl.n_addr > 0 /\ decl.dec_addr[1] = None)
           => (probe \in DOMAIN sni_map /\ sni_map[probe] = None)

\* C5 witness: the Root has enable_sni false, the Group has enable_sni true
\* and an sni, and the Group's Mapping got the entry None.
C5_Witness ==
    /\ fpc = "group"
    /\ ~EnableSni(root)
    /\ group[1].enable_sni = Some(TRUE)
    /\ group[1].sni # None
    /\ decl.n_addr > 0
    /\ probe \in DOMAIN group_map
    /\ group_map[probe].sni = None

\* C6 as stated: under a Root and a Group with enable_sni true, an
\* effectively enabled Mapping with enable_sni true gets the Group's sni g
\* when the Group has one, and its own sni (its hostname when it has none)
\* when the Group has none. Fails for a Mapping without an address.
C6_Original ==
    fpc = "group" =>
        \A d \in DnsSet :
            (EffEnable(root, group[1], d) /\ EffEnableSni(root, group[1], d))
            => HasSni(DnsMerged(root, group[1], group_map, d), d.hostname,
                      IF group[1].sni # None THEN group[1].sni
                      ELSE Some(UnwrapOr(d.sni, d.hostname)))

\* C6 amended: the same for every such Mapping whose address is set.
C6_GroupSniOverrides ==
    fpc = "group" =>
        \A d \in DnsSet :
            (/\ EffEnable(root, group[1], d)
             /\ EffEnableSni(root, group[1], d)
             /\ d.address # None)
            => HasSni(DnsMerged(root, group[1], group_map, d), d.hostname,
                      IF group[1].sni # None THEN group[1].sni
                      ELSE Some(UnwrapOr(d.sni, d.hostname)))

\* C6 witness: a Group with sni front.test and enable_sni true has given
\* its Mapping b.test the entry Override(front.test).
C6_Witness ==
    /\ fpc = "group"
    /\ EnableSni(root) /\ Enable(root)
    /\ Enable(group[1]) /\ EnableSni(group[1])
    /\ group[1].sni = Some("front.test")
    /\ probe = "b.test"
    /\ decl.n_addr > 0
    /\ HasSni(group_map, "b.test", Some("front.test"))

\* C7 as stated: after the split a hostname is a key of the SniMap iff an
\* effectively enabled Mapping declares it. Fails when none of these
\* Mappings has an address.
C7_Original ==
    fpc = "split" => (probe \in DOMAIN sni_map <=> decl.n > 0)

\* C7 amended: a hostname is a key of the SniMap iff an effectively enabled
\* Mapping with an address declares it.
C7_KeysAreEnabledWithAddress ==
    fpc = "split" => (probe \in DOMAIN sni_map <=> decl.n_addr > 0)

\* C7 witness: both sides hold after a split, and for the other hostname
\* neither need hold.
C7_Witness ==
    /\ fpc = "split"
    /\ decl.n_addr > 0
    /\ probe \in DOMAIN sni_map
    /\ Cardinality(DOMAIN sni_map) = 1

\* C8: every key of the flattened maps is the hostname of an effectively
\* enabled Mapping; a hostname declared only by Mappings with enable false
\* at the Root, at the Group or at itself is no key.
C8_KeysAreEnabled ==
    (probe \in DOMAIN group_map \cup DOMAIN config_map \cup DOMAIN sni_map) => decl.n > 0

\* C8 witness: a hostname declared only by a disabled Mapping (with an
\* address) is no key of an SniMap that has the other hostname.
C8_Witness ==
    /\ fpc = "split"
    /\ decl.off
    /\ decl.n = 0
    /\ probe \notin DOMAIN sni_map
    /\ sni_map # EmptyMap

\* C9 as stated: a hostname declared by several effectively enabled
\* Mappings has one entry, the decision for the last of them. Fails when
\* the last of them has no address.
C9_Original ==
    (fpc = "split" /\ decl.n >= 2)
        => (probe \in DOMAIN sni_map /\ sni_map[probe] = decl.dec[1])

\* C9 amended: a hostname declared by several effectively enabled Mappings
\* with an address has one entry, the decision for the last of them.
C9_LastDeclarationWins ==
    (fpc = "split" /\ decl.n_addr >= 2)
        => (probe \in DOMAIN sni_map /\ sni_map[probe] = decl.dec_addr[1])

\* C9 witness: two Groups were flattened, the hostname was declared at least
\* twice with an address and its entry is the last decision.
C9_Witness ==
    /\ fpc = "split"
    /\ ngroups = 2
    /\ decl.n_addr >= 2
    /\ probe \in DOMAIN sni_map
    /\ sni_map[probe] = decl.dec_addr[1]

\* ------------------------------------------------------------------------
\* The reverse proxy: values
\* ------------------------------------------------------------------------

\* Header lines a downstream request may carry at most.
MaxHeaders == 2

\* Result<T, E>
Ok(v) == [ok |-> TRUE, val |-> v]
Err(e) == [ok |-> FALSE, val |-> e]

\* A HeaderValue and a String are sequences of pieces; a piece stands for a
\* run of bytes. NonAscii is a run of bytes that is not visible ASCII.
NonAscii == "<non-ascii>"
HostValues == {<<"a.test">>, <<"b.test">>, <<NonAscii>>}
CookieValues == {<<"a=b">>, <<"c=d">>}
HeaderLines ==
    {<<"host", v>> : v \in HostValues} \cup {<<"cookie", v>> : v \in CookieValues}

Versions == {"HTTP/0.9", "HTTP/1.0", "HTTP/1.1", "HTTP/2.0", "HTTP/3.0"}
Schemes == {None, Some("https")}
Paths == {Some("/p")}

\* HeaderValue::to_str: Ok for visible ASCII only.
ToStr(v) ==
    IF \E i \in 1..Len(v) : v[i] = NonAscii THEN Err("ToStrError") ELSE Ok(v)

\* HeaderValue::from_str(host) for a hostname
FromStr(h) == <<h>>

\* The hostname a String holds, for SniMap::get(host).
AsHostname(str) == str[1]

\* HeaderMap: header name -> its values in the order they were added.
HeaderGet(hm, name) == IF name \in DOMAIN hm THEN Some(hm[name][1]) ELSE None

HeaderInsert(hm, name, v) ==
    [n \in DOMAIN hm \cup {name} |-> IF n = name THEN <<v>> ELSE hm[n]]

HeaderAppend(hm, name, v) ==
    [n \in DOMAIN hm \cup {name} |->
        IF n = name
        THEN (IF name \in DOMAIN hm THEN Append(hm[name], v) ELSE <<v>>)
        ELSE hm[n]]

RECURSIVE HeaderMapOf(_)
HeaderMapOf(lines) ==
    IF lines = <<>>
    THEN EmptyMap
    ELSE LET n == Len(lines)
         IN HeaderAppend(HeaderMapOf(SubSeq(lines, 1, n - 1)), lines[n][1], lines[n][2])

BoundedSeq(S, n) == UNION {[1..k -> S] : k \in 0..n}

\* The URIs of downstream requests: origin-form (no scheme, no host) or
\* absolute (scheme and host).
Uris ==
    {[scheme |-> s, uri_host |-> uh, path |-> p] :
        s \in Schemes, uh \in {None} \cup {Some(h) : h \in Hostnames}, p \in Paths}

\* The downstream requests the listener hands to reverse_proxy.
Requests ==
    {[version |-> v, scheme |-> u.scheme, uri_host |-> u.uri_host, path |-> u.path,
      headers |-> hm] :
        v \in Versions,
        u \in {x \in Uris : (x.scheme = None) <=> (x.uri_host = None)},
        hm \in {HeaderMapOf(l) : l \in BoundedSeq(HeaderLines, MaxHeaders)}}

\* The SniMaps the proxy is started with.
SniMaps ==
    UNION {[S -> {None} \cup {Some(s) : s \in SniNames}] : S \in SUBSET Hostnames}

\* Every name the connector may ask the resolver for.
Names == Hostnames \cup SniNames

Loopback == "127.0.0.1"
RealIp == [h \in Names |->
              CASE h = "a.test" -> "203.0.113.1"
                [] h = "b.test" -> "203.0.113.2"
                [] OTHER -> "203.0.113.3"]

\* A second public address of each name.
AltIp == [h \in Names |->
             CASE h = "a.test" -> "198.51.100.1"
               [] h = "b.test" -> "198.51.100.2"
               [] OTHER -> "198.51.100.3"]

HttpsPort == 443
SocketAddr(ip, port) == [ip |-> ip, port |-> port]

\* ------------------------------------------------------------------------
\* reverse_proxy and forward
\* ------------------------------------------------------------------------

Http1x == {"HTTP/0.9", "HTTP/1.0", "HTTP/1.1"}

ExtractHost_FallsBack(r) ==
    LET hv == HeaderGet(r.headers, "host")
    IN IF r.version \in Http1x /\ hv # None
       THEN (IF ToStr(hv[1]).ok THEN Ok(Some(AsHostname(ToStr(hv[1]).val))) ELSE Err("panic"))
       ELSE IF r.uri_host # None THEN Ok(r.uri_host)
       ELSE IF hv # None /\ ToStr(hv[1]).ok THEN Ok(Some(AsHostname(ToStr(hv[1]).val)))
       ELSE Ok(None)

\* The outer match of reverse_proxy: where the host is read from.
\* Ok(None): no host; Ok(Some(h)): host h; Err: to_str().unwrap() panicked.
ExtractHost(r) ==
    IF r.version \in Http1x
    THEN LET hv == HeaderGet(r.headers, "host")
         IN IF hv = None THEN Ok(None)
            ELSE IF ToStr(hv[1]).ok THEN Ok(Some(AsHostname(ToStr(hv[1]).val)))
            ELSE Err("panic")
    ELSE Ok(r.uri_host)

HeadWithHost_Unchanged(r, h) == r

\* head.headers_mut().insert(HOST, HeaderValue::from_str(host))
HeadWithHost(r, h) == [r EXCEPT !.headers = HeaderInsert(r.headers, "host", FromStr(h))]

ClientFor_Swapped(entry) == IF entry = None THEN "client_enable_sni" ELSE "client_disable_sni"

\* The inner match on sni_maybe_none: which client forward is given.
ClientFor(entry) == IF entry = None THEN "client_disable_sni" ELSE "client_enable_sni"

\* The inner match on sni_maybe_none: the sni argument of forward.
TargetFor(entry, h) == IF entry = None THEN h ELSE entry[1]

JoinValues_KeepsLast(vs) == Ok(vs[Len(vs)])

\* format!("{};{}", hv.to_str()?, nhv.to_str()?) folded over the values of
\* one header name, in the order HeaderMap::into_iter yields them.
RECURSIVE JoinValues(_)
JoinValues(vs) ==
    IF Len(vs) = 1
    THEN Ok(vs[1])
    ELSE LET n == Len(vs)
             hv == JoinValues(SubSeq(vs, 1, n - 1))
         IN IF ~hv.ok THEN hv
            ELSE IF ~ToStr(hv.val).ok \/ ~ToStr(vs[n]).ok THEN Err("ToStrError")
            ELSE Ok(hv.val \o <<";">> \o vs[n])

\* The header loop of forward: one value for each name, or the error `?`
\* returns.
MergeHeaders(hm) ==
    IF \E n \in DOMAIN hm : ~JoinValues(hm[n]).ok
    THEN Err("ToStrError")
    ELSE Ok([n \in DOMAIN hm |-> <<JoinValues(hm[n]).val>>])

\* format!("{}://{}{}", scheme or "https", sni, path_and_query or "/")
UpstreamUri(sni, head) ==
    [scheme |-> UnwrapOr(head.scheme, "https"),
     authority |-> sni,
     path |-> UnwrapOr(head.path, "/")]

\* forward up to send_stream: the awc_request, or the error returned.
BuildRequest(client, sni, head) ==
    LET merged == MergeHeaders(head.headers)
    IN IF merged.ok
       THEN Ok([client |-> client, uri |-> UpstreamUri(sni, head), headers |-> merged.val])
       ELSE merged

ForbiddenBody_NoHost(h) == <<"not enabled in config.toml">>

\* The body of the 403 answer.
ForbiddenBody(h) == <<"'host=\"", h, "\"' not enabled in config.toml">>

\* The version a response built by HttpResponse::build starts with.
DefaultVersion == "HTTP/1.1"

\* HttpResponse::build(status).body(body), returned as Ok
HttpResponse(status, body) ==
    Ok([status |-> status, version |-> DefaultVersion, headers |-> EmptyMap, body |-> body])

\* reverse_proxy is called with request r and runs until it returns or until
\* forward awaits send_stream.
ReverseProxy(r) ==
    /\ hpc = "idle"
    /\ req' = Some(r)
    /\ LET eh == ExtractHost(r)
       IN IF ~eh.ok
          THEN /\ hpc' = "panicked"
               /\ UNCHANGED <<host, fwd, upstream, response>>
          ELSE /\ host' = eh.val
               /\ IF eh.val = None
                  THEN /\ response' = Some(HttpResponse(404, <<"'host=xxx' not found in header">>))
                       /\ hpc' = "done"
                       /\ UNCHANGED <<fwd, upstream>>
                  ELSE LET h == eh.val[1]
                       IN IF h \notin DOMAIN sni_map
                          THEN /\ response' = Some(HttpResponse(403, ForbiddenBody(h)))
                               /\ hpc' = "done"
                               /\ UNCHANGED <<fwd, upstream>>
                          ELSE LET client == ClientFor(sni_map[h])
                                   sni == TargetFor(sni_map[h], h)
                                   head == HeadWithHost(r, h)
                                   built == BuildRequest(client, sni, head)
                               IN /\ fwd' = Some([client |-> client, sni |-> sni, head |-> head])
                                  /\ IF built.ok
                                     THEN /\ upstream' = Some(built.val)
                                          /\ hpc' = "send"
                                          /\ UNCHANGED response
                                     ELSE /\ response' = Some(built)
                                          /\ hpc' = "done"
                                          /\ UNCHANGED upstream
    /\ nsent' = IF upstream' = None THEN 0 ELSE 1
    /\ UNCHANGED <<looked, addrs, connected, white_list, cache, received>>
    /\ UNCHANGED <<flatten_vars, resolver_vars>>
    /\ UNCHANGED other_vars

\* ------------------------------------------------------------------------
\* DnsCache::lookup, called by the connector of the client send_stream uses
\* ------------------------------------------------------------------------

WithWhitelist_SniTargets(m) == {m[h][1] : h \in {k \in DOMAIN m : m[k] # None}}

WithWhitelist_AddsTargets(m) ==
    DOMAIN m \cup {m[h][1] : h \in {k \in DOMAIN m : m[k] # None}}

\* DnsCache::new().with_whitelist(hosts), hosts being the SniMap hostnames.
WithWhitelist(m) == DOMAIN m

\* The hostnames edit_hosts wrote into the hosts file: 127.0.0.1<TAB>hostname
Intercepted == DOMAIN sni_map

CacheGet_AlwaysMiss(c, h) == None

\* cache.get(host).cloned().flatten()
CacheGet(c, h) == IF h \in DOMAIN c THEN c[h] ELSE None

\* cache.put(host.to_string(), Some(socket_addr))
CachePut(c, h, a) == [k \in DOMAIN c \cup {h} |-> IF k = h THEN Some(a) ELSE c[k]]

\* Every result of a system lookup.
SystemResults ==
    {Ok(<<Loopback>>), Ok(<<>>), Err("lookup_host")}
        \cup {Ok(<<RealIp[h]>>) : h \in Names}
        \cup {Ok(<<AltIp[h], RealIp[h]>>) : h \in Names}

\* What lookup_host(h) can give: the hosts file entry when there is one,
\* else the public address, no address, or an error.
SystemLookup(h) ==
    IF h \in Intercepted
    THEN {Ok(<<Loopback>>)}
    ELSE {Ok(<<RealIp[h]>>), Ok(<<AltIp[h], RealIp[h]>>), Ok(<<>>), Err("lookup_host")}

\* A page of ipaddress.com: the text the regex captures in it, if any.
BadIp == "999.1.1.1"
Html(capture) == [capture |-> capture]

\* Every result of ip_lookup_on_ipaddress_com.
ExternalResults ==
    {Err("reqwest"), Ok(Html(None)), Ok(Html(Some(BadIp)))}
        \cup {Ok(Html(Some(RealIp[h]))) : h \in Names}
        \cup {Ok(Html(Some(AltIp[h]))) : h \in Names}

\* What ip_lookup_on_ipaddress_com(h) can give: an error of the POST or of
\* reading the text, a page without a match, a page whose match is no IP
\* address, or a page with the public address.
ExternalLookup(h) ==
    {Err("reqwest"), Ok(Html(None)), Ok(Html(Some(BadIp))), Ok(Html(Some(RealIp[h]))),
     Ok(Html(Some(AltIp[h])))}

\* capture_ip_from_html_plain: the captured text parsed as IpAddr.
CaptureIp(html) ==
    IF html.capture = None THEN None
    ELSE IF html.capture[1] = BadIp THEN None
    ELSE html.capture

\* Mutant of ExternalResult: the address is given the https port whatever
\* port the caller passed.
ExternalResult_HttpsPort(out, port) ==
    IF ~out.ok THEN out
    ELSE IF CaptureIp(out.val) = None THEN Ok(<<>>)
    ELSE Ok(<<SocketAddr(CaptureIp(out.val)[1], HttpsPort)>>)

ExternalResult_SwallowsError(out, port) ==
    IF ~out.ok THEN Ok(<<>>)
    ELSE IF CaptureIp(out.val) = None THEN Ok(<<>>)
    ELSE Ok(<<SocketAddr(CaptureIp(out.val)[1], port)>>)

\* The whitelisted arm of lookup: what is returned for result out of
\* ip_lookup_on_ipaddress_com.
ExternalResult(out, port) ==
    IF ~out.ok THEN out
    ELSE IF CaptureIp(out.val) = None THEN Ok(<<>>)
    ELSE Ok(<<SocketAddr(CaptureIp(out.val)[1], port)>>)

\* The other arm of lookup: what is returned for result out of lookup_host.
SystemResult(out, port) ==
    IF ~out.ok THEN out
    ELSE IF out.val = <<>> THEN Ok(<<>>)
    ELSE Ok(<<SocketAddr(out.val[1], port)>>)

CacheAfter_NegativeSlot(c, h, res) ==
    IF res.ok /\ res.val # <<>>
    THEN CachePut(c, h, res.val[1])
    ELSE [k \in DOMAIN c \cup {h} |-> IF k = h THEN None ELSE c[k]]

\* The cache when lookup returns res for a missed host h: cache.put is
\* called only where an address was found.
CacheAfter(c, h, res) ==
    IF res.ok /\ res.val # <<>> THEN CachePut(c, h, res.val[1]) ELSE c

UseExternal_Inverted(wl, h) == h \notin wl

\* match self.white_list.contains(host)
UseExternal(wl, h) == h \in wl

\* The host and port the connector resolves: the authority of the URI.
LookupHost == upstream[1].uri.authority

\* lookup: cache hit.
LookupHit ==
    /\ hpc = "send"
    /\ CacheGet(cache, LookupHost) # None
    /\ looked' = Some([host |-> LookupHost, via |-> "cache"])
    /\ addrs' = Some(Ok(<<CacheGet(cache, LookupHost)[1]>>))
    /\ hpc' = "connect"
    /\ UNCHANGED <<req, host, fwd, upstream, connected, response, white_list, cache, nsent, received>>
    /\ UNCHANGED <<flatten_vars, resolver_vars>>
    /\ UNCHANGED other_vars

\* lookup: cache miss of a whitelisted host; the external lookup is awaited
\* with the cache locked.
LookupExternal ==
    /\ hpc = "send"
    /\ CacheGet(cache, LookupHost) = None
    /\ UseExternal(white_list, LookupHost)
    /\ looked' = Some([host |-> LookupHost, via |-> "external"])
    /\ hpc' = "external"
    /\ UNCHANGED <<req, host, fwd, upstream, addrs, connected, response, white_list, cache, nsent, received>>
    /\ UNCHANGED <<flatten_vars, resolver_vars>>
    /\ UNCHANGED other_vars

\* lookup: the external lookup completed with out.
ExternalReply(out) ==
    /\ hpc = "external"
    /\ out \in ExternalLookup(LookupHost)
    /\ addrs' = Some(ExternalResult(out, HttpsPort))
    /\ cache' = CacheAfter(cache, LookupHost, ExternalResult(out, HttpsPort))
    /\ hpc' = "connect"
    /\ UNCHANGED <<req, host, fwd, upstream, looked, connected, response, white_list, nsent, received>>
    /\ UNCHANGED <<flatten_vars, resolver_vars>>
    /\ UNCHANGED other_vars

\* lookup: cache miss of a host not on the whitelist; lookup_host gave out.
LookupSystem(out) ==
    /\ hpc = "send"
    /\ CacheGet(cache, LookupHost) = None
    /\ ~UseExternal(white_list, LookupHost)
    /\ out \in SystemLookup(LookupHost)
    /\ looked' = Some([host |-> LookupHost, via |-> "system"])
    /\ addrs' = Some(SystemResult(out, HttpsPort))
    /\ cache' = CacheAfter(cache, LookupHost, SystemResult(out, HttpsPort))
    /\ hpc' = "connect"
    /\ UNCHANGED <<req, host, fwd, upstream, connected, response, white_list, nsent, received>>
    /\ UNCHANGED <<flatten_vars, resolver_vars>>
    /\ UNCHANGED other_vars

\* Statuses an upstream answers with.
UpstreamStatuses == {200, 302}

\* Versions an upstream answers in.
UpstreamVersions == {"HTTP/1.1", "HTTP/2.0"}

\* The responses of an upstream: a page setting two cookies, or a redirect.
UpstreamResponses ==
    {[status |-> st, version |-> v,
      headers |-> IF st = 200
                  THEN HeaderMapOf(<< <<"set-cookie", <<"a=b">> >>, <<"set-cookie", <<"c=d">> >>,
                                      <<"content-encoding", <<"gzip">> >> >>)
                  ELSE HeaderMapOf(<< <<"location", <<"/elsewhere">> >> >>),
      body |-> <<"upstream bytes">>] :
        st \in UpstreamStatuses, v \in UpstreamVersions}

\* response.append_header for the values of one name, in order.
RECURSIVE AppendValues(_, _, _)
AppendValues(hm, name, vs) ==
    IF vs = <<>> THEN hm
    ELSE AppendValues(HeaderAppend(hm, name, vs[1]), name, Tail(vs))

\* The loop over awc_response.headers().iter()
RECURSIVE AppendHeaders(_, _, _)
AppendHeaders(hm, src, names) ==
    IF names = {} THEN hm
    ELSE LET n == CHOOSE x \in names : TRUE
         IN AppendHeaders(AppendValues(hm, n, src[n]), src, names \ {n})

ForwardResponse_InsertsHeaders(resp) ==
    [status |-> resp.status,
     version |-> DefaultVersion,
     headers |-> [n \in DOMAIN resp.headers |-> <<resp.headers[n][Len(resp.headers[n])]>>],
     body |-> resp.body]

\* The end of forward: HttpResponse::build(status), every header appended,
\* the upstream's body streamed.
ForwardResponse(resp) ==
    [status |-> resp.status,
     version |-> DefaultVersion,
     headers |-> AppendHeaders(EmptyMap, resp.headers, DOMAIN resp.headers),
     body |-> resp.body]

DisableRedirects_Off == FALSE

\* Both clients are built with .disable_redirects()
DisableRedirects == TRUE

\* The ClientHello of the client: server_name is the URI host unless the
\* client's config has SNI disabled.
ServerName(client, authority) ==
    IF client = "client_enable_sni" THEN Some(authority) ELSE None

\* The ways send_stream fails: connecting failed (no address resolved, TCP
\* connect or TLS handshake error), or the 30 second timeout of the client
\* or of its connector expired.
SendRequestErrors == {"Connect", "Timeout"}

\* send_stream failed with e. forward logs it and returns Err(e.into()), the
\* error boxed as AnyError.
SendFails(e) ==
    /\ hpc = "connect"
    /\ response' = Some(Err(e))
    /\ connected' =
          IF addrs[1].ok /\ addrs[1].val # <<>>
          THEN Some([addr |-> addrs[1].val[1],
                     server_name |-> ServerName(upstream[1].client, LookupHost)])
          ELSE None
    /\ hpc' = "done"
    /\ UNCHANGED <<req, host, fwd, upstream, looked, addrs, white_list, cache, nsent, received>>
    /\ UNCHANGED <<flatten_vars, resolver_vars>>
    /\ UNCHANGED other_vars

\* send_stream returned the upstream's response resp; forward builds the
\* downstream response from it. A client that follows redirects would send
\* again instead of returning a redirect.
SendOk(resp) ==
    /\ hpc = "connect"
    /\ addrs[1].ok /\ addrs[1].val # <<>>
    /\ connected' = Some([addr |-> addrs[1].val[1],
                          server_name |-> ServerName(upstream[1].client, LookupHost)])
    /\ IF ~DisableRedirects /\ resp.status = 302
       THEN /\ nsent' = nsent + 1
            /\ hpc' = "send"
            /\ looked' = None
            /\ addrs' = None
            /\ UNCHANGED <<response, received>>
       ELSE /\ received' = Some(resp)
            /\ response' = Some(Ok(ForwardResponse(resp)))
            /\ hpc' = "done"
            /\ UNCHANGED <<nsent, looked, addrs>>
    /\ UNCHANGED <<req, host, fwd, upstream, white_list, cache>>
    /\ UNCHANGED <<flatten_vars, resolver_vars>>
    /\ UNCHANGED other_vars

\* The response was handed to the listener; the worker takes the next
\* request.
Finish ==
    /\ hpc = "done"
    /\ hpc' = "idle"
    /\ req' = None
    /\ host' = None
    /\ fwd' = None
    /\ upstream' = None
    /\ looked' = None
    /\ addrs' = None
    /\ connected' = None
    /\ response' = None
    /\ nsent' = 0
    /\ received' = None
    /\ UNCHANGED <<white_list, cache>>
    /\ UNCHANGED <<flatten_vars, resolver_vars>>
    /\ UNCHANGED other_vars

\* The proxy as the test harness of handler.rs starts it: an SniMap, a
\* DnsCache whose whitelist holds the SniMap hostnames, an empty cache.
ProxyInit ==
    /\ fpc = "split"
    /\ root = [enable |-> Some(TRUE), enable_sni |-> None]
    /\ group = None
    /\ ngroups = 0
    /\ ndns = 0
    /\ group_map = EmptyMap
    /\ config_map = EmptyMap
    /\ sni_map \in SniMaps
    /\ domain_map = EmptyMap
    /\ probe = "a.test"
    /\ decl = NoDecl
    /\ hpc = "idle"
    /\ NoRequest
    /\ NoLookups
    /\ white_list = WithWhitelist(sni_map)
    /\ cache = EmptyMap
    /\ NoOther

ProxyNext ==
    \/ \E r \in Requests : ReverseProxy(r)
    \/ LookupHit
    \/ LookupExternal
    \/ \E out \in ExternalResults : ExternalReply(out)
    \/ \E out \in SystemResults : LookupSystem(out)
    \/ \E e \in SendRequestErrors : SendFails(e)
    \/ \E resp \in UpstreamResponses : SendOk(resp)
    \/ Finish

SpecProxy == ProxyInit /\ [][ProxyNext]_vars

\* ------------------------------------------------------------------------
\* DnsCache::lookup called at once through clones of one DnsCache
\* ------------------------------------------------------------------------

\* The ports lookup is called with.
Ports == {HttpsPort}

\* The whitelists a DnsCache is built with.
WhiteLists == SUBSET Names

\* history: the slot of host h as the cache holds it.
Slot(c, h) == IF h \in DOMAIN c THEN c[h] ELSE None

LockFree_Always(l) == TRUE

\* self.cache.lock().await completes only while nobody holds the Mutex.
LockFree(l) == l = None

\* Caller t calls lookup(h, p): the future is created and waits for the
\* Mutex.
Lookup(t, h, p) ==
    /\ lk[t].pc = "idle"
    /\ lk' = [lk EXCEPT ![t] = [IdleTask EXCEPT !.pc = "waiting", !.host = Some(h),
                                                !.port = Some(p)]]
    /\ asked' = IF asked = None THEN None ELSE Some(asked[1] \cup {<<h, p>>})
    /\ UNCHANGED <<lock, flatten_vars, proxy_vars>>
    /\ UNCHANGED <<late_vars, again, main_vars, gen_vars, test_vars>>

\* t gets the Mutex and the cache has an address for its host: the guard
\* is dropped as the future completes.
LockedHit(t) ==
    /\ lk[t].pc = "waiting"
    /\ LockFree(lock)
    /\ CacheGet(cache, lk[t].host[1]) # None
    /\ lk' = [lk EXCEPT ![t].pc = "returned",
                        ![t].pre = Slot(cache, lk[t].host[1]),
                        ![t].ret = Some(Ok(<<CacheGet(cache, lk[t].host[1])[1]>>))]
    /\ UNCHANGED <<lock, flatten_vars, proxy_vars>>
    /\ UNCHANGED other_vars

\* t gets the Mutex, misses, and its host is on the whitelist: the external
\* lookup is awaited while t keeps the guard.
LockedExternal(t) ==
    /\ lk[t].pc = "waiting"
    /\ LockFree(lock)
    /\ CacheGet(cache, lk[t].host[1]) = None
    /\ UseExternal(white_list, lk[t].host[1])
    /\ lock' = Some(t)
    /\ lk' = [lk EXCEPT ![t].pc = "external",
                        ![t].pre = Slot(cache, lk[t].host[1]),
                        ![t].calls = @ \cup {"external"}]
    /\ UNCHANGED <<flatten_vars, proxy_vars>>
    /\ UNCHANGED other_vars

\* The external lookup of t completed with out: the address found is
\* cached, the result returned and the guard dropped.
ExternalDone(t, out) ==
    /\ lk[t].pc = "external"
    /\ out \in ExternalLookup(lk[t].host[1])
    /\ cache' = CacheAfter(cache, lk[t].host[1], ExternalResult(out, lk[t].port[1]))
    /\ lk' = [lk EXCEPT ![t].pc = "returned",
                        ![t].out = Some(out),
                        ![t].ret = Some(ExternalResult(out, lk[t].port[1]))]
    /\ lock' = IF lock = Some(t) THEN None ELSE lock
    /\ UNCHANGED <<hpc, req, host, fwd, upstream, looked, addrs, connected, response,
                   white_list, nsent, received>>
    /\ UNCHANGED flatten_vars
    /\ UNCHANGED other_vars

\* t gets the Mutex, misses, and its host is not on the whitelist:
\* lookup_host blocks until it gives out, then the future completes.
LockedSystem(t, out) ==
    /\ lk[t].pc = "waiting"
    /\ LockFree(lock)
    /\ CacheGet(cache, lk[t].host[1]) = None
    /\ ~UseExternal(white_list, lk[t].host[1])
    /\ out \in SystemLookup(lk[t].host[1])
    /\ cache' = CacheAfter(cache, lk[t].host[1], SystemResult(out, lk[t].port[1]))
    /\ lk' = [lk EXCEPT ![t].pc = "returned",
                        ![t].pre = Slot(cache, lk[t].host[1]),
                        ![t].calls = @ \cup {"system"},
                        ![t].out = Some(out),
                        ![t].ret = Some(SystemResult(out, lk[t].port[1]))]
    /\ UNCHANGED <<hpc, req, host, fwd, upstream, looked, addrs, connected, response,
                   white_list, nsent, received>>
    /\ UNCHANGED <<lock, flatten_vars>>
    /\ UNCHANGED other_vars

\* The caller took the result of its call.
Returned(t) ==
    /\ lk[t].pc = "returned"
    /\ lk' = [lk EXCEPT ![t] = IdleTask]
    /\ UNCHANGED <<lock, flatten_vars, proxy_vars>>
    /\ UNCHANGED other_vars

\* One DnsCache::new().with_whitelist(..), cloned for every caller.
ResolverInit ==
    /\ fpc = "split"
    /\ root = [enable |-> Some(TRUE), enable_sni |-> None]
    /\ group = None
    /\ ngroups = 0
    /\ ndns = 0
    /\ group_map = EmptyMap
    /\ config_map = EmptyMap
    /\ sni_map = EmptyMap
    /\ domain_map = EmptyMap
    /\ probe = "a.test"
    /\ decl = NoDecl
    /\ hpc = "off"
    /\ NoRequest
    /\ NoLookups
    /\ white_list \in WhiteLists
    /\ cache = EmptyMap
    /\ NoOther

ResolverNext ==
    \/ \E t \in Tasks, h \in Names, p \in Ports : Lookup(t, h, p)
    \/ \E t \in Tasks : LockedHit(t)
    \/ \E t \in Tasks : LockedExternal(t)
    \/ \E t \in Tasks, out \in ExternalResults : ExternalDone(t, out)
    \/ \E t \in Tasks, out \in SystemResults : LockedSystem(t, out)
    \/ \E t \in Tasks : Returned(t)

SpecResolver == ResolverInit /\ [][ResolverNext]_vars

\* ------------------------------------------------------------------------
\* Properties of the reverse proxy
\* ------------------------------------------------------------------------

\* The request being served has extracted host h and h is an SniMap key.
HostMapped == host # None /\ host[1] \in DOMAIN sni_map

\* The connect target the SniMap entry of the extracted host stands for.
ConnectTarget == IF sni_map[host[1]] = None THEN host[1] ELSE sni_map[host[1]][1]

\* C1: a request whose extracted host h is an SniMap key enters forward; with
\* a Disable entry (None) it goes through the SNI-disabled client to h, with
\* an Override/Preserve entry (Some(s)) through the SNI-enabled client to s.
\* The request handed to send_stream, the name resolved and the ClientHello
\* agree with that choice.
C1_ClientAndTargetFollowEntry ==
    HostMapped =>
        /\ fwd # None
        /\ sni_map[host[1]] = None =>
              fwd[1].client = "client_disable_sni" /\ fwd[1].sni = host[1]
        /\ sni_map[host[1]] # None =>
              fwd[1].client = "client_enable_sni" /\ fwd[1].sni = sni_map[host[1]][1]
        /\ upstream # None =>
              /\ upstream[1].client = fwd[1].client
              /\ upstream[1].uri.authority = fwd[1].sni
        /\ looked # None => looked[1].host = ConnectTarget
        /\ connected # None =>
              connected[1].server_name =
                  IF sni_map[host[1]] = None THEN None ELSE Some(ConnectTarget)

\* C1 happens: a request for a host with a Disable entry was answered by the
\* upstream over a connection without server_name.
C1_Witness ==
    /\ hpc = "done"
    /\ HostMapped
    /\ sni_map[host[1]] = None
    /\ connected # None
    /\ connected[1].server_name = None
    /\ response # None /\ response[1].ok

\* C2: the request handed to send_stream has exactly one Host header, its
\* value is the extracted host, and the authority of its URI is the connect
\* target; with Override(s) the Host header is the origin host, not s.
C2_HostHeaderIsOriginalHost ==
    upstream # None =>
        /\ HostMapped
        /\ "host" \in DOMAIN upstream[1].headers
        /\ upstream[1].headers["host"] = <<FromStr(host[1])>>
        /\ upstream[1].uri.authority = ConnectTarget
        /\ ConnectTarget # host[1] => upstream[1].headers["host"] # <<FromStr(ConnectTarget)>>

\* C2 happens: a request with two Host header lines for a host with an
\* Override entry was handed to send_stream.
C2_Witness ==
    /\ upstream # None
    /\ req # None
    /\ "host" \in DOMAIN req[1].headers
    /\ Len(req[1].headers["host"]) = 2
    /\ HostMapped
    /\ ConnectTarget # host[1]

\* C3: with the whitelist holding the SniMap hostnames, no lookup of an
\* intercepted hostname goes to the system resolver, the connect target of
\* a Disable or Preserve entry is resolved by the external lookup (or the
\* cache it filled), and no loopback address is cached, returned or
\* connected to.
C3_OriginsNeverResolvedBySystem ==
    /\ looked # None /\ looked[1].host \in Intercepted => looked[1].via # "system"
    /\ looked # None /\ HostMapped /\ ConnectTarget = host[1] =>
          looked[1].via \in {"external", "cache"}
    /\ \A h \in DOMAIN cache : cache[h] # None => cache[h][1].ip # Loopback
    /\ addrs # None /\ addrs[1].ok =>
          \A i \in 1..Len(addrs[1].val) : addrs[1].val[i].ip # Loopback
    /\ connected # None => connected[1].addr.ip # Loopback

\* C3 happens: after an earlier request cached it, a later request for an
\* intercepted host with a Disable entry connected to the cached address.
C3_Witness ==
    /\ looked # None
    /\ looked[1].via = "cache"
    /\ looked[1].host \in Intercepted
    /\ HostMapped
    /\ sni_map[host[1]] = None
    /\ connected # None

\* C10: a request whose extracted host is not an SniMap key is answered 403
\* with a body containing the host; forward is not entered, nothing is
\* handed to send_stream, nothing is looked up or connected to.
C10_UnmappedHostForbidden ==
    host # None /\ host[1] \notin DOMAIN sni_map =>
        /\ hpc = "done"
        /\ response # None
        /\ response[1].ok
        /\ response[1].val.status = 403
        /\ \E i \in 1..Len(response[1].val.body) : response[1].val.body[i] = host[1]
        /\ fwd = None
        /\ upstream = None
        /\ looked = None
        /\ connected = None

\* C10 happens: with a non-empty SniMap, a request for a host that is not
\* one of its keys was answered.
C10_Witness ==
    /\ hpc = "done"
    /\ host # None
    /\ host[1] \notin DOMAIN sni_map
    /\ DOMAIN sni_map # {}
    /\ DOMAIN cache # {}
    /\ response # None

\* The source the host of the request being served is to be read from: the
\* first Host header for HTTP/0.9, 1.0 and 1.1, the URI host otherwise.
HostSourceAbsent ==
    IF req[1].version \in {"HTTP/0.9", "HTTP/1.0", "HTTP/1.1"}
    THEN "host" \notin DOMAIN req[1].headers
    ELSE req[1].uri_host = None

\* C11: the host is read from the Host header for HTTP/0.9, 1.0 and 1.1 and
\* from the URI host for later versions; when that source is absent the
\* answer is 404 and nothing is forwarded, looked up or sent, whatever the
\* other source and the SniMap hold.
C11_HostSourceByVersion ==
    req # None /\ hpc # "panicked" =>
        IF HostSourceAbsent
        THEN /\ hpc = "done"
             /\ host = None
             /\ response # None /\ response[1].ok /\ response[1].val.status = 404
             /\ fwd = None
             /\ upstream = None
             /\ looked = None
             /\ connected = None
        ELSE /\ host # None
             /\ IF req[1].version \in {"HTTP/0.9", "HTTP/1.0", "HTTP/1.1"}
                THEN <<host[1]>> = req[1].headers["host"][1]
                ELSE host = req[1].uri_host

\* C11 happens: an HTTP/1.1 request without Host header whose URI names a
\* host of the SniMap was answered.
C11_Witness ==
    /\ hpc = "done"
    /\ req # None
    /\ req[1].version = "HTTP/1.1"
    /\ "host" \notin DOMAIN req[1].headers
    /\ req[1].uri_host # None
    /\ req[1].uri_host[1] \in DOMAIN sni_map
    /\ response # None

\* ------------------------------------------------------------------------
\* Properties of DnsCache::lookup
\* ------------------------------------------------------------------------

\* C12: a lookup that missed the cache called the external lookup and
\* nothing else when its host is on the whitelist, the system resolver and
\* nothing else when it is not; a lookup that hit called neither.
C12_WhitelistChoosesResolver ==
    \A t \in Tasks :
        /\ Cardinality(lk[t].calls) <= 1
        /\ lk[t].pc \in {"external", "returned"} =>
              IF lk[t].pre # None
              THEN lk[t].calls = {}
              ELSE lk[t].calls =
                      IF lk[t].host[1] \in white_list THEN {"external"} ELSE {"system"}

\* C12 happens: of two lookups that returned, one went to the external
\* lookup and the other to the system resolver.
C12_Witness ==
    \E t, u \in Tasks :
        /\ lk[t].pc = "returned" /\ lk[t].calls = {"external"}
        /\ lk[u].pc = "returned" /\ lk[u].calls = {"system"}

\* The resolver call of a lookup found no address: a page without a match
\* or with a match that is no IP address, or an empty system answer.
NoAddress(t) ==
    LET o == lk[t].out[1]
    IN /\ o.ok
       /\ IF lk[t].calls = {"external"}
          THEN o.val.capture = None \/ o.val.capture[1] = BadIp
          ELSE o.val = <<>>

Succeeded(res) == res # None /\ res[1].ok /\ res[1].val # <<>>

\* C14: a lookup that returns without an address leaves the cache as it
\* was, and the cache never holds a slot without an address, so the host is
\* missed again by the next lookup.
C14_FailedLookupLeavesCache ==
    /\ [](\A h \in DOMAIN cache : cache[h] # None)
    /\ [][\A t \in Tasks :
             (lk[t].pc # "returned" /\ lk'[t].pc = "returned" /\ ~Succeeded(lk'[t].ret))
                 => cache' = cache]_vars

\* C14 happens: a lookup of a host returned without an address and a later
\* lookup of the same host missed and is at the external lookup again.
C14_Witness ==
    \E t, u \in Tasks :
        /\ lk[t].pc = "returned" /\ ~Succeeded(lk[t].ret)
        /\ lk[u].pc = "external" /\ lk[u].host = lk[t].host
        /\ DOMAIN cache # {}

\* C15: a lookup that finds an address cached for its host returns exactly
\* that address and calls neither the external lookup nor the system
\* resolver; an address once cached stays the address of its host.
C15_CachedAddressIsReturned ==
    /\ [](\A t \in Tasks :
             lk[t].pc \in {"external", "returned"} /\ lk[t].pre # None =>
                 /\ lk[t].pc = "returned"
                 /\ lk[t].calls = {}
                 /\ lk[t].ret = Some(Ok(<<lk[t].pre[1]>>)))
    /\ [][\A h \in DOMAIN cache :
             cache[h] # None => h \in DOMAIN cache' /\ cache'[h] = cache[h]]_vars

\* C15 happens: the lookup that cached an address and a later lookup of the
\* same host both returned, the later one from the cache.
C15_Witness ==
    \E t, u \in Tasks :
        /\ lk[t].pc = "returned" /\ lk[t].calls # {} /\ Succeeded(lk[t].ret)
        /\ lk[u].pc = "returned" /\ lk[u].host = lk[t].host
        /\ lk[u].pre # None /\ lk[u].calls = {}
        /\ lk[u].ret = lk[t].ret

\* C16 as stated: the Mutex is not held while a lookup waits for the
\* external lookup, so another lookup can get it meanwhile. Fails: the
\* guard taken before cache.get lives until the future completes.
C16_Original ==
    \A t \in Tasks : lk[t].pc = "external" => lock = None

\* C17: every lookup that returned an address returned the one address the
\* cache holds for its host, so callers of the same host that ran at once
\* agree with each other and with every later lookup.
C17_ConcurrentLookupsAgree ==
    \A t \in Tasks :
        lk[t].pc = "returned" /\ Succeeded(lk[t].ret) =>
            /\ Len(lk[t].ret[1].val) = 1
            /\ Slot(cache, lk[t].host[1]) = Some(lk[t].ret[1].val[1])

\* C17 happens: every caller looked up a.test at port 443 and has its
\* answer; one went to the external lookup and found the address, another
\* failed before it or hit the cache after it.
C17_Witness ==
    /\ \A t \in Tasks :
          lk[t].pc = "returned" /\ lk[t].host = Some("a.test") /\ lk[t].port = Some(HttpsPort)
    /\ \E t, u \in Tasks :
          /\ Succeeded(lk[t].ret) /\ lk[t].calls = {"external"}
          /\ t # u
          /\ \/ ~Succeeded(lk[u].ret)
             \/ lk[u].pre # None

C19_AtMostOneUpstreamRequest ==
    /\ nsent <= 1
    /\ hpc = "done" /\ upstream # None =>
          /\ nsent = 1
          /\ response # None
          /\ received = None => ~response[1].ok
          /\ received # None =>
                /\ response[1].ok
                /\ response[1].val.status = received[1].status
                /\ received[1].status = 302 =>
                      /\ "location" \in DOMAIN response[1].val.headers
                      /\ response[1].val.headers["location"] = received[1].headers["location"]

\* C19 happens: the upstream answered with a redirect and the request was
\* answered with it after one send.
C19_Witness ==
    /\ hpc = "done"
    /\ nsent = 1
    /\ received # None
    /\ received[1].status = 302
    /\ response # None /\ response[1].ok /\ response[1].val.status = 302

\* C20 as stated: the response returned has the upstream's status, version,
\* headers and body. Fails for the version: HttpResponse::build(status)
\* never takes it from the upstream's response.
C20_Original ==
    hpc = "done" /\ received # None =>
        /\ response # None /\ response[1].ok
        /\ response[1].val.status = received[1].status
        /\ response[1].val.version = received[1].version
        /\ response[1].val.headers = received[1].headers
        /\ response[1].val.body = received[1].body

\* C20, amended: the response returned has the upstream's status, every
\* header of the upstream's response with each occurrence of a repeated
\* name, and the upstream's body; its version is the one HttpResponse::build
\* starts with, whatever the upstream's.
C20_StatusHeadersBodyCopied ==
    hpc = "done" /\ received # None =>
        /\ response # None /\ response[1].ok
        /\ response[1].val.status = received[1].status
        /\ response[1].val.headers = received[1].headers
        /\ response[1].val.body = received[1].body
        /\ response[1].val.version = DefaultVersion

\* C20 happens: an HTTP/2 upstream response with a repeated header name was
\* returned.
C20_Witness ==
    /\ hpc = "done"
    /\ received # None
    /\ received[1].version = "HTTP/2.0"
    /\ \E n \in DOMAIN received[1].headers : Len(received[1].headers[n]) > 1
    /\ response # None /\ response[1].ok

\* The values v1..vk written as one value v1;v2;...;vk
RECURSIVE Semicolons(_)
Semicolons(vs) ==
    IF Len(vs) = 1 THEN vs[1] ELSE vs[1] \o <<";">> \o Semicolons(Tail(vs))

\* C21 as stated: every header name of the downstream request is on the
\* request handed to send_stream once, its values joined with ';' in their
\* order. Fails for Host: of several Host values only the extracted host is
\* sent.
C21_Original ==
    upstream # None =>
        \A n \in DOMAIN req[1].headers :
            /\ n \in DOMAIN upstream[1].headers
            /\ upstream[1].headers[n] = <<Semicolons(req[1].headers[n])>>

\* C21, amended: every header name of the downstream request other than
\* Host is on the request handed to send_stream once, its values joined
\* with ';' in their order (a single value unchanged); Host is the only
\* other name on it.
C21_HeadersJoinedExceptHost ==
    upstream # None =>
        /\ DOMAIN upstream[1].headers = DOMAIN req[1].headers \cup {"host"}
        /\ \A n \in DOMAIN req[1].headers \ {"host"} :
              upstream[1].headers[n] = <<Semicolons(req[1].headers[n])>>

\* C21 happens: a request with two different Cookie values was handed to
\* send_stream.
C21_Witness ==
    /\ upstream # None
    /\ "cookie" \in DOMAIN req[1].headers
    /\ Len(req[1].headers["cookie"]) = 2
    /\ req[1].headers["cookie"][1] # req[1].headers["cookie"][2]

\* What the listener sends for a handler that returned Err(e): AnyError is
\* Box<dyn Error>, which carries no status of its own, so every error is
\* rendered with the framework's default status, 500, whatever e was.
ErrorResponse(e) ==
    [status |-> 500, version |-> DefaultVersion, headers |-> EmptyMap, body |-> e]

\* What the downstream client receives for the result res of reverse_proxy
Downstream(res) == IF res.ok THEN res.val ELSE ErrorResponse(res.val)

\* C22 as stated: when send_stream failed because connecting failed (no
\* address, TCP or TLS error) the downstream client receives status 502, and
\* 504 when the 30 second deadline expired. Fails: forward returns the boxed
\* error, which the listener renders as 500 in both cases.
C22_Original ==
    (hpc = "done" /\ upstream # None /\ ~response[1].ok) =>
        Downstream(response[1]).status =
            (IF response[1].val = "Timeout" THEN 504 ELSE 502)

\* ------------------------------------------------------------------------
\* The hosts file: gen_hosts of hosts.rs and of utils.rs
\* ------------------------------------------------------------------------

\* Lines of the old hosts file.
MaxLines == 3

\* Hostnames edited into the hosts file.
MaxHosts == 2

\* A text is a sequence of pieces, the line break a piece of its own.
Newline == "\n"

\* &flag[..15]
FlagPrefix == "# Auto Generate"

\* let flag = "# Auto Generate by disable_sni_reverse_proxy";
flag == <<FlagPrefix, " by disable_sni_reverse_proxy">>

\* A comment somebody else wrote that begins like flag.
Comment == <<FlagPrefix, "d by hand">>

\* An entry that is not the proxy's.
Localhost == <<Loopback, "\t", "localhost">>

\* The lines an old hosts file is made of; <<>> is an empty line.
OldLines == {Localhost, <<>>, Comment, flag}

\* [&str]::join("\n")
RECURSIVE join(_)
join(ls) ==
    IF ls = <<>> THEN <<>>
    ELSE IF Len(ls) = 1 THEN ls[1]
    ELSE ls[1] \o <<Newline>> \o join(Tail(ls))

\* str::lines, the text read piece by piece: a line ends at a line break,
\* and a last line without one counts unless it is empty.
RECURSIVE lines(_, _, _)
lines(s, cur, acc) ==
    IF s = <<>> THEN (IF cur = <<>> THEN acc ELSE Append(acc, cur))
    ELSE IF Head(s) = Newline THEN lines(Tail(s), <<>>, Append(acc, cur))
    ELSE lines(Tail(s), Append(cur, Head(s)), acc)

\* str::starts_with for a prefix that is one piece
starts_with(line, prefix) == line # <<>> /\ line[1] = prefix

\* The hosts files main may find: up to MaxLines lines, the last one with or
\* without its line break.
OldHosts ==
    {join(ls) \o e : ls \in BoundedSeq(OldLines, MaxLines), e \in {<<>>, <<Newline>>}}

\* The hostname lists gen_hosts is called with.
HostLists == BoundedSeq(Hostnames, MaxHosts)

\* Mutant of filter_flag: a flag line is dropped but toggles nothing, so the
\* lines after it stay.
RECURSIVE filter_flag_NoToggle(_, _, _)
filter_flag_NoToggle(ls, is_will_change, acc) ==
    IF ls = <<>> THEN acc
    ELSE IF starts_with(Head(ls), FlagPrefix)
         THEN filter_flag_NoToggle(Tail(ls), is_will_change, acc)
         ELSE filter_flag_NoToggle(Tail(ls), is_will_change,
                     IF ~is_will_change THEN Append(acc, Head(ls)) ELSE acc)

\* The filter closure of gen_hosts over the lines: a line that starts with
\* the first 15 bytes of flag flips is_will_change and is dropped, any other
\* line is kept while is_will_change is false.
RECURSIVE filter_flag(_, _, _)
filter_flag(ls, is_will_change, acc) ==
    IF ls = <<>> THEN acc
    ELSE IF starts_with(Head(ls), FlagPrefix)
         THEN filter_flag(Tail(ls), ~is_will_change, acc)
         ELSE filter_flag(Tail(ls), is_will_change,
                     IF ~is_will_change THEN Append(acc, Head(ls)) ELSE acc)

\* format!("127.0.0.1\t{}", hostname) for every hostname
hostpair(hostnames) == [i \in 1..Len(hostnames) |-> <<Loopback, "\t", hostnames[i]>>]

\* gen_hosts of hosts.rs: flag is pushed before and after the pairs whatever
\* hostnames is.
hosts_gen_hosts(old, hostnames) ==
    join(filter_flag(lines(old, <<>>, <<>>), FALSE, <<>>)
            \o <<flag>> \o hostpair(hostnames) \o <<flag>>)

\* gen_hosts of utils.rs: flag is pushed only if !hostnames.is_empty().
utils_gen_hosts(old, hostnames) ==
    join(filter_flag(lines(old, <<>>, <<>>), FALSE, <<>>)
            \o (IF hostnames # <<>> THEN <<flag>> ELSE <<>>)
            \o hostpair(hostnames)
            \o (IF hostnames # <<>> THEN <<flag>> ELSE <<>>))

\* No flattening is looked at.
NoConfig ==
    /\ fpc = "split"
    /\ root = [enable |-> Some(TRUE), enable_sni |-> None]
    /\ group = None
    /\ ngroups = 0
    /\ ndns = 0
    /\ group_map = EmptyMap
    /\ config_map = EmptyMap
    /\ sni_map = EmptyMap
    /\ domain_map = EmptyMap
    /\ probe = "a.test"
    /\ decl = NoDecl

\* No request is served and no resolver is in use.
NoServer ==
    /\ hpc = "off"
    /\ NoRequest
    /\ NoLookups
    /\ white_list = {}
    /\ cache = EmptyMap

\* hosts::edit_hosts(&host_all) on the hosts file as it is.
HostsEditHosts ==
    /\ old_hosts' = Some(hosts_file)
    /\ gen_fn' = Some("hosts")
    /\ hosts_file' = hosts_gen_hosts(hosts_file, host_all)
    /\ UNCHANGED <<mpc, host_all, original, signalled, restored, inflight>>
    /\ UNCHANGED <<late_vars, flatten_vars, proxy_vars, resolver_vars, asked, again, test_vars>>

\* utils::edit_hosts(&host_all) on the hosts file as it is.
UtilsEditHosts ==
    /\ old_hosts' = Some(hosts_file)
    /\ gen_fn' = Some("utils")
    /\ hosts_file' = utils_gen_hosts(hosts_file, host_all)
    /\ UNCHANGED <<mpc, host_all, original, signalled, restored, inflight>>
    /\ UNCHANGED <<late_vars, flatten_vars, proxy_vars, resolver_vars, asked, again, test_vars>>

\* Some hosts file and some hostname list, before any call.
GenHostsInit ==
    /\ NoConfig
    /\ NoServer
    /\ asked = None
    /\ again = None
    /\ NoTest
    /\ NoLate
    /\ NoGen
    /\ mpc = "off"
    /\ hosts_file \in OldHosts
    /\ host_all \in HostLists
    /\ original = hosts_file
    /\ signalled = FALSE
    /\ restored = None
    /\ inflight = 0

GenHostsNext ==
    \/ HostsEditHosts
    \/ UtilsEditHosts

SpecGenHosts == GenHostsInit /\ [][GenHostsNext]_vars

\* The lines of ls at the indices in I, in their order, from index i on
RECURSIVE LinesAt(_, _, _)
LinesAt(ls, I, i) ==
    IF i > Len(ls) THEN <<>>
    ELSE (IF i \in I THEN <<ls[i]>> ELSE <<>>) \o LinesAt(ls, I, i + 1)

\* The sentinel lines of ls: the indices of the lines gen_hosts takes for
\* flag lines
Sentinels(ls) == {i \in 1..Len(ls) : starts_with(ls[i], FlagPrefix)}

\* Line i of ls is enclosed between a sentinel line and the next sentinel
\* line: the sentinel lines pair up from the top, and i lies within a pair.
Enclosed(ls, i) ==
    /\ Cardinality({j \in Sentinels(ls) : j < i}) % 2 = 1
    /\ \E k \in Sentinels(ls) : k > i

\* The managed block for the hostname list hs
ManagedBlock(hs) ==
    <<flag>> \o [i \in 1..Len(hs) |-> <<Loopback, "\t", hs[i]>>] \o <<flag>>

\* C25: for a non-empty hostname list the output of gen_hosts is the old
\* lines that are neither sentinel lines nor enclosed between a sentinel
\* line and the next one, in their order, followed by one managed block.
\* Fails: the lines after a sentinel line that has no partner are dropped.
C25_Original ==
    (old_hosts # None /\ host_all # <<>>) =>
        LET old == lines(old_hosts[1], <<>>, <<>>)
            kept == {i \in 1..Len(old) : i \notin Sentinels(old) /\ ~Enclosed(old, i)}
        IN lines(hosts_file, <<>>, <<>>) = LinesAt(old, kept, 1) \o ManagedBlock(host_all)

\* What the gen_hosts that ran last gives for the file it wrote
GenAgain ==
    IF gen_fn = Some("hosts") THEN hosts_gen_hosts(hosts_file, host_all)
    ELSE utils_gen_hosts(hosts_file, host_all)

MaxInflight == 1

\* hosts::edit_hosts(&host_all).await? before the server is built: an error
\* (no hosts file, or reading or writing it failed) ends main, the file as
\* it was.
EditHosts(ok) ==
    /\ mpc = "start"
    /\ IF ok
       THEN /\ hosts_file' = hosts_gen_hosts(hosts_file, host_all)
            /\ mpc' = "bind"
       ELSE /\ mpc' = "failed"
            /\ UNCHANGED hosts_file
    /\ UNCHANGED <<host_all, original, signalled, restored, inflight>>
    /\ UNCHANGED <<late_vars, flatten_vars, proxy_vars, resolver_vars, asked, again, gen_vars, test_vars>>

\* bind_with_graceful_shutdown(([127, 0, 0, 1], 443), ..): it returns the
\* server, or panics where the address cannot be bound.
Bind(ok) ==
    /\ mpc = "bind"
    /\ mpc' = IF ok THEN "hook" ELSE "panicked"
    /\ UNCHANGED <<hosts_file, host_all, original, signalled, restored, inflight>>
    /\ UNCHANGED <<late_vars, flatten_vars, proxy_vars, resolver_vars, asked, again, gen_vars, test_vars>>

\* server.await polls the shutdown future first: CtrlC::new() gives the
\* hook, on which the future waits, or an error, on which the future logs
\* "ctrlc hook failed" and completes, which stops the server.
Hook(ok) ==
    /\ mpc = "hook"
    /\ mpc' = IF ok THEN "waiting" ELSE "draining"
    /\ UNCHANGED <<hosts_file, host_all, original, signalled, restored, inflight>>
    /\ UNCHANGED <<late_vars, flatten_vars, proxy_vars, resolver_vars, asked, again, gen_vars, test_vars>>

\* The server accepts a request; it does until the shutdown future
\* completes.
Accept ==
    /\ mpc \in {"waiting", "restore"}
    /\ inflight < MaxInflight
    /\ inflight' = inflight + 1
    /\ UNCHANGED <<mpc, hosts_file, host_all, original, signalled, restored>>
    /\ UNCHANGED <<late_vars, flatten_vars, proxy_vars, resolver_vars, asked, again, gen_vars, test_vars>>

\* A request was answered.
Respond ==
    /\ mpc \in {"waiting", "restore", "draining"}
    /\ inflight > 0
    /\ inflight' = inflight - 1
    /\ UNCHANGED <<mpc, hosts_file, host_all, original, signalled, restored>>
    /\ UNCHANGED <<late_vars, flatten_vars, proxy_vars, resolver_vars, asked, again, gen_vars, test_vars>>

\* ctrlc.await completes: SIGINT arrived.
CtrlC ==
    /\ mpc = "waiting"
    /\ mpc' = "restore"
    /\ signalled' = TRUE
    /\ UNCHANGED <<hosts_file, host_all, original, restored, inflight>>
    /\ UNCHANGED <<late_vars, flatten_vars, proxy_vars, resolver_vars, asked, again, gen_vars, test_vars>>

\* hosts::edit_hosts(&Vec::new()).await in the shutdown future: whether it
\* worked is logged, then the future completes and the server stops
\* accepting.
RestoreHosts(ok) ==
    /\ mpc = "restore"
    /\ mpc' = "draining"
    /\ restored' = Some(IF ok THEN Ok("hosts") ELSE Err("hosts"))
    /\ hosts_file' = IF ok THEN hosts_gen_hosts(hosts_file, <<>>) ELSE hosts_file
    /\ UNCHANGED <<host_all, original, signalled, inflight>>
    /\ UNCHANGED <<late_vars, flatten_vars, proxy_vars, resolver_vars, asked, again, gen_vars, test_vars>>

\* The requests in flight are answered: server.await completes and main
\* returns Ok(()).
Exit ==
    /\ mpc = "draining"
    /\ inflight = 0
    /\ mpc' = "exited"
    /\ UNCHANGED <<hosts_file, host_all, original, signalled, restored, inflight>>
    /\ UNCHANGED <<late_vars, flatten_vars, proxy_vars, resolver_vars, asked, again, gen_vars, test_vars>>

\* main starts with some hosts file and the hostnames of its configuration.
MainInit ==
    /\ NoConfig
    /\ NoServer
    /\ asked = None
    /\ again = None
    /\ NoTest
    /\ NoLate
    /\ NoGen
    /\ mpc = "start"
    /\ hosts_file \in OldHosts
    /\ host_all \in HostLists
    /\ original = hosts_file
    /\ signalled = FALSE
    /\ restored = None
    /\ inflight = 0

MainNext ==
    \/ \E ok \in BOOLEAN : EditHosts(ok)
    \/ \E ok \in BOOLEAN : Bind(ok)
    \/ \E ok \in BOOLEAN : Hook(ok)
    \/ Accept
    \/ Respond
    \/ CtrlC
    \/ \E ok \in BOOLEAN : RestoreHosts(ok)
    \/ Exit

SpecMain == MainInit /\ [][MainNext]_vars

\* C23: when main edited the hosts file at startup and edited it back at
\* shutdown, a file that had no sentinel line has its lines back, in their
\* order, and holds no sentinel line and no 127.0.0.1 line of the proxy.
\* Fails: gen_hosts of hosts.rs pushes the two flag lines for the empty list
\* too.
C23_Original ==
    (/\ mpc = "exited"
     /\ restored = Some(Ok("hosts"))
     /\ Sentinels(lines(original, <<>>, <<>>)) = {}) =>
        /\ lines(hosts_file, <<>>, <<>>) = lines(original, <<>>, <<>>)
        /\ Sentinels(lines(hosts_file, <<>>, <<>>)) = {}

\* C24: the server stops only after SIGINT arrived, and main does not exit
\* after SIGINT before the restoration of the hosts file was attempted.
\* Fails: where CtrlC::new() gives an error the shutdown future completes at
\* once and the server stops with no signal (and the hosts file as edited).
C24_Original ==
    /\ mpc \in {"draining", "exited"} => signalled
    /\ (mpc = "exited" /\ signalled) => restored # None

\* ------------------------------------------------------------------------
\* ConfigMap::split on its own, and flattening what it gave once more
\* ------------------------------------------------------------------------

\* The addresses of the entries of a ConfigMap: two that parse as IpAddr and
\* one that does not.
SplitAddresses == {"1.1.1.1", "2.2.2.2", "localhost"}

\* The ConfigMaps impl From<Config> can return for the Hostnames: the Sni of
\* a hostname is None, the hostname itself, or a name a Mapping or its Group
\* gave.
ConfigMaps ==
    {m \in UNION {[S -> [addr : SplitAddresses,
                         sni : {None} \cup {Some(s) : s \in Names}]] :
                  S \in SUBSET Hostnames} :
        \A h \in DOMAIN m : m[h].sni \in {None, Some(h)} \cup {Some(s) : s \in SniNames}}

\* impl From<Config> for a Config of one Group of one Mapping: the loop of
\* From<Group> runs once and config_map.merge(g) takes what it gave.
OneMappingMap(c, g, d) ==
    IF Enable(c) THEN MapMerge(EmptyMap, DnsMerged(c, g, EmptyMap, d)) ELSE EmptyMap

\* A Config and a Group that set nothing.
PlainConfig == [enable |-> None, enable_sni |-> None]
PlainGroup == [enable |-> None, enable_sni |-> None, sni |-> None]

\* The Mapping an entry of a SniMap is turned back into: Disable as
\* enable_sni = false, Override(s) and Preserve(s) as sni = s, with the
\* address given.
MappingOf(h, sni, address) ==
    [enable |-> None, enable_sni |-> IF sni = None THEN Some(FALSE) ELSE None,
     hostname |-> h, sni |-> sni, address |-> address]

\* The SniMap of flattening, one by one, the one-Mapping configurations of
\* the entries of the SniMap sm, the address of h being addr[h].
SniMapAgain(sm, addr) ==
    LET one(h) == SplitSni(OneMappingMap(PlainConfig, PlainGroup,
                                         MappingOf(h, sm[h], addr[h])))
    IN [h \in {k \in DOMAIN sm : k \in DOMAIN one(k)} |-> one(h)[h]]

\* The entries of the SniMap split returned are turned into one-Mapping
\* configurations, without an address and with the address of the entry,
\* and these are flattened.
Reflatten ==
    /\ fpc = "split"
    /\ again = None
    /\ again' = Some([bare |-> SniMapAgain(sni_map, [h \in DOMAIN sni_map |-> None]),
                      addressed |-> SniMapAgain(sni_map,
                                       [h \in DOMAIN sni_map |-> Some(config_map[h].addr)])])
    /\ UNCHANGED <<late_vars, flatten_vars, proxy_vars, resolver_vars, asked, main_vars, gen_vars,
                   test_vars>>

\* A ConfigMap as impl From<Config> returned it.
SplitInit ==
    /\ fpc = "flattened"
    /\ root = [enable |-> Some(TRUE), enable_sni |-> None]
    /\ group = None
    /\ ngroups = 0
    /\ ndns = 0
    /\ group_map = EmptyMap
    /\ config_map \in ConfigMaps
    /\ sni_map = EmptyMap
    /\ domain_map = EmptyMap
    /\ probe = "a.test"
    /\ decl = NoDecl
    /\ NoServer
    /\ NoOther

SplitNext ==
    \/ Split
    \/ Reflatten

SpecSplit == SplitInit /\ [][SplitNext]_vars

\* C27: flattening the same Config twice gives equal outputs: the SniMap and
\* the DomainMap of split are the same for every iteration order of the
\* HashMap. Fails for the DomainMap: where two entries insert the same name
\* with different addresses, the one iterated last wins.
C27_Original ==
    fpc = "split" =>
        \A order \in Orders(DOMAIN config_map) :
            /\ sni_map = SplitSni(config_map)
            /\ domain_map = SplitDomain(config_map, order, EmptyMap)

\* C28 as stated: the entries of the flattened SniMap, turned into
\* one-Mapping configurations (enable_sni = false for Disable, sni = s
\* otherwise) and flattened again, give the same SniMap. Fails: a Mapping
\* without an address is not inserted, the second SniMap is empty.
C28_Original ==
    again # None => again[1].bare = sni_map

\* C28, amended: the entries of the flattened SniMap, turned into
\* one-Mapping configurations that also carry the address of the entry and
\* flattened again, give the same SniMap; without the address they give the
\* empty SniMap.
C28_SameSniMapWithAddress ==
    again # None =>
        /\ again[1].addressed = sni_map
        /\ again[1].bare = EmptyMap

\* C28 happens: a SniMap with a Disable entry and an Override entry was
\* flattened again.
C28_Witness ==
    /\ again # None
    /\ \E h \in DOMAIN sni_map : sni_map[h] = None
    /\ \E h \in DOMAIN sni_map : sni_map[h] # None /\ sni_map[h] # Some(h)

\* ------------------------------------------------------------------------
\* test_dns_cache_clone: jobs that check and insert under the Mutex
\* ------------------------------------------------------------------------

\* for _ in 0..8
Jobs == 8

\* "duckduckgo.com"
TestHost == "duckduckgo.com"

\* "1.1.1.1:443".parse().ok()
TestAddr == SocketAddr("1.1.1.1", HttpsPort)

\* A job that was spawned; saw becomes Some(what cache_lock.get gave).
SpawnedJob == [pc |-> "spawned", saw |-> None]

\* Job j gets the Mutex: cache_clone.cache.lock().await
JobLock(j) ==
    /\ job[j].pc = "spawned"
    /\ LockFree(lock)
    /\ lock' = Some(j)
    /\ job' = [job EXCEPT ![j].pc = "locked"]
    /\ UNCHANGED <<late_vars, lk, chan, flatten_vars, proxy_vars, asked, again, main_vars, gen_vars>>

\* Job j reads the slot: cache_lock.get("duckduckgo.com").cloned().flatten()
JobGet(j) ==
    /\ job[j].pc = "locked"
    /\ job' = [job EXCEPT ![j].pc = "matched", ![j].saw = Some(CacheGet(cache, TestHost))]
    /\ UNCHANGED <<late_vars, lk, lock, chan, flatten_vars, proxy_vars, asked, again, main_vars,
                   gen_vars>>

\* Job j takes the arm for what it read: nothing for Some(_); for None it
\* puts the address and sends it on the channel. The guard is dropped as the
\* job ends.
JobPut(j) ==
    /\ job[j].pc = "matched"
    /\ IF job[j].saw[1] = None
       THEN /\ cache' = CachePut(cache, TestHost, TestAddr)
            /\ chan' = Append(chan, Some(TestAddr))
       ELSE UNCHANGED <<cache, chan>>
    /\ lock' = IF lock = Some(j) THEN None ELSE lock
    /\ job' = [job EXCEPT ![j].pc = "done"]
    /\ UNCHANGED <<hpc, req, host, fwd, upstream, looked, addrs, connected, response,
                   white_list, nsent, received>>
    /\ UNCHANGED <<late_vars, lk, flatten_vars, asked, again, main_vars, gen_vars>>

\* join_all returned and s was dropped: r.recv().unwrap() is compared with
\* the address; a closed empty channel makes unwrap panic.
RecvFirst ==
    /\ job[0].pc = "joining"
    /\ \A j \in 1..Jobs : job[j].pc = "done"
    /\ IF chan # <<>> /\ Head(chan) = Some(TestAddr)
       THEN /\ job' = [job EXCEPT ![0].pc = "received"]
            /\ chan' = Tail(chan)
       ELSE /\ job' = [job EXCEPT ![0].pc = "failed"]
            /\ UNCHANGED chan
    /\ UNCHANGED <<late_vars, lk, lock, flatten_vars, proxy_vars, asked, again, main_vars, gen_vars>>

\* assert!(r.recv().is_err()): the channel has to be empty.
RecvSecond ==
    /\ job[0].pc = "received"
    /\ job' = [job EXCEPT ![0].pc = IF chan = <<>> THEN "passed" ELSE "failed"]
    /\ UNCHANGED <<late_vars, lk, lock, chan, flatten_vars, proxy_vars, asked, again, main_vars,
                   gen_vars>>

\* DnsCache::new().with_whitelist(&["duckduckgo.com", "google.com"]), the
\* jobs spawned, the test at join_all.
CloneTestInit ==
    /\ NoConfig
    /\ hpc = "off"
    /\ NoRequest
    /\ NoLookups
    /\ white_list = {"duckduckgo.com", "google.com"}
    /\ cache = EmptyMap
    /\ asked = None
    /\ again = None
    /\ NoMain
    /\ NoGen
    /\ job = [j \in 0..Jobs |-> IF j = 0 THEN [pc |-> "joining", saw |-> None]
                                 ELSE SpawnedJob]
    /\ chan = <<>>
    /\ NoLate

CloneTestNext ==
    \/ \E j \in 1..Jobs : JobLock(j)
    \/ \E j \in 1..Jobs : JobGet(j)
    \/ \E j \in 1..Jobs : JobPut(j)
    \/ RecvFirst
    \/ RecvSecond

SpecCloneTest == CloneTestInit /\ [][CloneTestNext]_vars

\* The jobs that read the slot and found nothing
Missed == {j \in 1..Jobs : job[j].saw = Some(None)}

\* C29: of the jobs that check and insert under the Mutex on an empty
\* cache, at most one finds the slot empty at any time; once all are done
\* exactly one has found it empty and inserted, every other has read the
\* inserted address, one message was sent, and the test passes.
C29_OneJobInserts ==
    /\ job # <<>> => Cardinality(Missed) <= 1
    /\ job # <<>> => Len(chan) <= 1
    /\ (job # <<>> /\ \A j \in 1..Jobs : job[j].pc = "done") =>
          /\ Cardinality(Missed) = 1
          /\ \A j \in (1..Jobs) \ Missed : job[j].saw = Some(Some(TestAddr))
          /\ cache = CachePut(EmptyMap, TestHost, TestAddr)
          /\ job[0].pc # "failed"

\* C29 happens: all jobs ran and the test passed both assertions.
C29_Witness ==
    /\ job # <<>>
    /\ \A j \in 1..Jobs : job[j].pc = "done"
    /\ job[0].pc = "passed"

\* ------------------------------------------------------------------------
\* DnsCache::lookup called with different ports for one host
\* ------------------------------------------------------------------------

\* The ports callers pass: that of https and that of http.
CallerPorts == {HttpsPort, 80}

\* The host they look up.
PortHosts == {"a.test"}

\* One DnsCache, the host on its whitelist or not, and a record of the
\* calls started.
PortsInit ==
    /\ NoConfig
    /\ hpc = "off"
    /\ NoRequest
    /\ NoLookups
    /\ white_list \in SUBSET PortHosts
    /\ cache = EmptyMap
    /\ asked = Some({})
    /\ again = None
    /\ NoMain
    /\ NoGen
    /\ NoTest
    /\ NoLate

PortsNext ==
    \/ \E t \in Tasks, h \in PortHosts, p \in CallerPorts : Lookup(t, h, p)
    \/ \E t \in Tasks : LockedHit(t)
    \/ \E t \in Tasks : LockedExternal(t)
    \/ \E t \in Tasks, out \in ExternalResults : ExternalDone(t, out)
    \/ \E t \in Tasks, out \in SystemResults : LockedSystem(t, out)
    \/ \E t \in Tasks : Returned(t)

SpecPorts == PortsInit /\ [][PortsNext]_vars

\* Caller t has an address back from lookup
GotAddress(t) ==
    /\ lk[t].pc = "returned"
    /\ lk[t].ret[1].ok
    /\ lk[t].ret[1].val # <<>>

\* C30: an address lookup(h, p) returns on a miss has the port p and is the
\* address cached for h; on a hit it is the cached address, whose port may
\* differ from p; every port of a cached or returned address of h was
\* passed by some call of lookup for h.
C30_PortsComeFromCallers ==
    /\ \A t \in Tasks :
          GotAddress(t) =>
              LET a == lk[t].ret[1].val[1]
                  h == lk[t].host[1]
              IN /\ Len(lk[t].ret[1].val) = 1
                 /\ lk[t].calls # {} => a.port = lk[t].port[1]
                 /\ lk[t].calls = {} => lk[t].pre = Some(a)
                 /\ CacheGet(cache, h) = Some(a)
                 /\ <<h, a.port>> \in asked[1]
    /\ \A h \in DOMAIN cache :
          cache[h] # None => <<h, cache[h][1].port>> \in asked[1]

\* C30 happens: a hit returned the cached address to a caller that passed
\* another port than the one the entry was made with.
C30_Witness ==
    \E t \in Tasks :
        /\ GotAddress(t)
        /\ lk[t].calls = {}
        /\ lk[t].ret[1].val[1].port # lk[t].port[1]

\* ------------------------------------------------------------------------
\* The warp-based main (src/main.rs): every enabled Mapping with an address
\* is registered with one of its two clients.
\* ------------------------------------------------------------------------

\* Mappings the loops of main visit in one run.
MaxMappings == 2

\* The fields of a root Config main reads.
RegRoots == [enable : OptBool, enable_sni : OptBool]

\* The fields of a Group main reads.
RegGroups == [enable : OptBool, enable_sni : OptBool]

\* The Mappings of a Group: the address is unset, an IP or a name.
RegMappings ==
    [enable : OptBool, enable_sni : OptBool, hostname : Hostnames,
     address : {None, Some("1.1.1.1"), Some("localhost")}]

\* dns.address().map(|address| address.parse::<IpAddr>()) is Some(Ok(addr))
AddressParses(d) == d.address # None /\ ParseIpOk(d.address[1])

\* config_enable_sni || group_enable_sni || dns_enable_sni
RegistersWithSni(c, g, d) == EnableSni(c) \/ EnableSni(g) \/ EnableSni(d)

\* config.group().into_iter().for_each(|group| ...): the loop takes the
\* next Group.
RegNextGroup(g) ==
    /\ rpc = "groups"
    /\ nvisit < MaxMappings
    /\ reg_group' = Some(g)
    /\ visit' = None
    /\ UNCHANGED <<rpc, reg_config, HOSTS_ENABLE_SNI, HOSTS_DISABLE_SNI, client_builder,
                   client_builder_disable_sni, nvisit>>
    /\ UNCHANGED <<early_vars, spider_vars, request_vars, httproxy_vars, tree_vars>>

\* group.dns().into_iter().for_each(|dns| ...): the body of the inner loop
\* for the next Mapping of an enabled Group.
RegVisit(d) ==
    /\ rpc = "groups"
    /\ reg_group # None
    /\ Enable(reg_group[1])
    /\ nvisit < MaxMappings
    /\ nvisit' = nvisit + 1
    /\ IF Enable(d) /\ AddressParses(d)
       THEN IF RegistersWithSni(reg_config[1], reg_group[1], d)
            THEN /\ HOSTS_ENABLE_SNI' = Append(HOSTS_ENABLE_SNI, d.hostname)
                 /\ client_builder' = client_builder \cup {<<d.hostname, d.address[1]>>}
                 /\ visit' = Some([dns |-> d, to |-> "client_builder"])
                 /\ UNCHANGED <<HOSTS_DISABLE_SNI, client_builder_disable_sni>>
            ELSE /\ HOSTS_DISABLE_SNI' = Append(HOSTS_DISABLE_SNI, d.hostname)
                 /\ client_builder_disable_sni' =
                        client_builder_disable_sni \cup {<<d.hostname, d.address[1]>>}
                 /\ visit' = Some([dns |-> d, to |-> "client_builder_disable_sni"])
                 /\ UNCHANGED <<HOSTS_ENABLE_SNI, client_builder>>
       ELSE /\ visit' = Some([dns |-> d, to |-> "neither"])
            /\ UNCHANGED <<HOSTS_ENABLE_SNI, HOSTS_DISABLE_SNI, client_builder,
                           client_builder_disable_sni>>
    /\ UNCHANGED <<rpc, reg_config, reg_group>>
    /\ UNCHANGED <<early_vars, spider_vars, request_vars, httproxy_vars, tree_vars>>

\* The loops are over: main goes on to build host_all.
RegEnd ==
    /\ rpc = "groups"
    /\ rpc' = "registered"
    /\ UNCHANGED <<reg_config, reg_group, HOSTS_ENABLE_SNI, HOSTS_DISABLE_SNI, client_builder,
                   client_builder_disable_sni, nvisit, visit>>
    /\ UNCHANGED <<early_vars, spider_vars, request_vars, httproxy_vars, tree_vars>>

\* No server and no test runs beside the warp main.
NoEarly ==
    /\ NoConfig
    /\ NoServer
    /\ asked = None
    /\ again = None
    /\ NoMain
    /\ NoGen
    /\ NoTest

\* main has read its Config and looked the addresses up; a disabled root
\* Config skips the loops.
RegisterInit ==
    /\ NoEarly
    /\ reg_config \in {Some(c) : c \in RegRoots}
    /\ rpc = IF Enable(reg_config[1]) THEN "groups" ELSE "registered"
    /\ reg_group = None
    /\ HOSTS_ENABLE_SNI = <<>>
    /\ HOSTS_DISABLE_SNI = <<>>
    /\ client_builder = {}
    /\ client_builder_disable_sni = {}
    /\ nvisit = 0
    /\ visit = None
    /\ NoSpider
    /\ NoRequestBytes
    /\ NoHTTProxy
    /\ NoTree

RegisterNext ==
    \/ \E g \in RegGroups : RegNextGroup(g)
    \/ \E d \in RegMappings : RegVisit(d)
    \/ RegEnd

SpecRegister == RegisterInit /\ [][RegisterNext]_vars

\* C31: a Mapping main visited that is enabled and has a parseable address
\* was registered with the client that sends no SNI when enable_sni is false
\* at the root, at its Group or at the Mapping, and with the client that
\* sends SNI when enable_sni is true at all three; never with neither.
C31_Original ==
    (visit # None /\ Enable(visit[1].dns) /\ AddressParses(visit[1].dns)) =>
        visit[1].to =
            IF /\ EnableSni(reg_config[1])
               /\ EnableSni(reg_group[1])
               /\ EnableSni(visit[1].dns)
            THEN "client_builder"
            ELSE "client_builder_disable_sni"

\* ------------------------------------------------------------------------
\* The Resolver of the dns crate (dns/src/resolver.rs): lookup_ip over the
\* web spiders with a DashMap as cache.
\* ------------------------------------------------------------------------

\* Resolver::default: dnspiders is MysslCom, then NexcessNet.
dnspiders == <<"MysslCom", "NexcessNet">>

\* What a spider answers for the hostname: nothing or one of two IPs.
SpiderAnswers == {None, Some("1.1.1.1"), Some("2.2.2.2")}

\* A caller that is not inside lookup_ip.
IdleSpider == [pc |-> "idle", n |-> 0, ip |-> None, ret |-> None]

\* lookup_ip_from_cache(hostname)
lookup_ip_from_cache == spider_cache

\* A call of lookup_ip(hostname) starts at the first spider.
LookupIp(t) ==
    /\ sp[t].pc = "idle"
    /\ sp' = [sp EXCEPT ![t] = [pc |-> "loop", n |-> 1, ip |-> None, ret |-> None]]
    /\ UNCHANGED <<spider_cache, first_ip>>
    /\ UNCHANGED <<early_vars, reg_vars, request_vars, httproxy_vars, tree_vars>>

\* The head of the loop body: the cache is read, and a hit is returned;
\* after the last spider lookup_ip returns None.
SpiderLoop(t) ==
    /\ sp[t].pc = "loop"
    /\ sp' = [sp EXCEPT ![t] =
                IF sp[t].n > Len(dnspiders)
                THEN [@ EXCEPT !.pc = "returned", !.ret = Some(None)]
                ELSE IF lookup_ip_from_cache # None
                     THEN [@ EXCEPT !.pc = "returned", !.ret = Some(lookup_ip_from_cache)]
                     ELSE [@ EXCEPT !.pc = "spider"]]
    /\ UNCHANGED <<spider_cache, first_ip>>
    /\ UNCHANGED <<early_vars, reg_vars, request_vars, httproxy_vars, tree_vars>>

\* dnspider.lookup(hostname).await answers: without an IP the loop goes to
\* the next spider.
SpiderAnswer(t, a) ==
    /\ sp[t].pc = "spider"
    /\ sp' = [sp EXCEPT ![t] =
                IF a = None
                THEN [@ EXCEPT !.pc = "loop", !.n = @ + 1]
                ELSE [@ EXCEPT !.pc = "answered", !.ip = a]]
    /\ UNCHANGED <<spider_cache, first_ip>>
    /\ UNCHANGED <<early_vars, reg_vars, request_vars, httproxy_vars, tree_vars>>

\* With the answer in hand the cache is read again, and a hit is returned
\* in place of the answer.
SpiderRecheck(t) ==
    /\ sp[t].pc = "answered"
    /\ sp' = [sp EXCEPT ![t] =
                IF lookup_ip_from_cache # None
                THEN [@ EXCEPT !.pc = "returned", !.ret = Some(lookup_ip_from_cache)]
                ELSE [@ EXCEPT !.pc = "insert"]]
    /\ UNCHANGED <<spider_cache, first_ip>>
    /\ UNCHANGED <<early_vars, reg_vars, request_vars, httproxy_vars, tree_vars>>

\* self.cache.insert(hostname.into(), ip) and the answer is returned.
SpiderInsert(t) ==
    /\ sp[t].pc = "insert"
    /\ spider_cache' = sp[t].ip
    /\ first_ip' = IF first_ip = None THEN sp[t].ip ELSE first_ip
    /\ sp' = [sp EXCEPT ![t] = [@ EXCEPT !.pc = "returned", !.ret = Some(sp[t].ip)]]
    /\ UNCHANGED <<early_vars, reg_vars, request_vars, httproxy_vars, tree_vars>>

\* The caller has its answer and may call again.
SpiderReturned(t) ==
    /\ sp[t].pc = "returned"
    /\ sp' = [sp EXCEPT ![t] = IdleSpider]
    /\ UNCHANGED <<spider_cache, first_ip>>
    /\ UNCHANGED <<early_vars, reg_vars, request_vars, httproxy_vars, tree_vars>>

\* Resolver::default() shared by tasks of a multi-threaded runtime.
SpiderInit ==
    /\ NoEarly
    /\ NoReg
    /\ spider_cache = None
    /\ sp = [t \in Tasks |-> IdleSpider]
    /\ first_ip = None
    /\ NoRequestBytes
    /\ NoHTTProxy
    /\ NoTree

SpiderNext ==
    \/ \E t \in Tasks : LookupIp(t)
    \/ \E t \in Tasks : SpiderLoop(t)
    \/ \E t \in Tasks, a \in SpiderAnswers : SpiderAnswer(t, a)
    \/ \E t \in Tasks : SpiderRecheck(t)
    \/ \E t \in Tasks : SpiderInsert(t)
    \/ \E t \in Tasks : SpiderReturned(t)

SpecSpider == SpiderInit /\ [][SpiderNext]_vars

\* C32: the IP inserted first for the hostname stays in the cache, whatever
\* the interleaving of the calls of lookup_ip.
C32_Original == first_ip # None => spider_cache = first_ip

\* ------------------------------------------------------------------------
\* The Request of the http crate (http/src/request.rs): from_bytes,
\* headers_filter and send_to over byte slices.  A slice is a sequence of
\* bytes, a byte a string of one character.
\* ------------------------------------------------------------------------

\* Header lines of one request.
MaxHeaderLines == 2

CR == "\r"
LF == "\n"
SP == " "
CRLF == <<CR, LF>>
CRLFCRLF == <<CR, LF, CR, LF>>
HTTP == <<"H", "T", "T", "P">>

\* <[u8]>::split(by!(&b)): the pieces between the bytes b, one more than
\* there are such bytes.
RECURSIVE split(_, _, _, _)
split(bytes, b, cur, acc) ==
    IF bytes = <<>> THEN Append(acc, cur)
    ELSE IF Head(bytes) = b THEN split(Tail(bytes), b, <<>>, Append(acc, cur))
    ELSE split(Tail(bytes), b, Append(cur, Head(bytes)), acc)

\* <[u8]>::starts_with
slice_starts_with(bytes, prefix) ==
    /\ Len(bytes) >= Len(prefix)
    /\ SubSeq(bytes, 1, Len(prefix)) = prefix

\* [&[u8]]::join(&CRLF[..])
RECURSIVE join_crlf(_)
join_crlf(hs) ==
    IF hs = <<>> THEN <<>>
    ELSE IF Len(hs) = 1 THEN hs[1]
    ELSE hs[1] \o CRLF \o join_crlf(Tail(hs))

\* What a call that may panic came to: it panicked, or it returned ret.
Panicked == [panicked |-> TRUE, ret |-> None]
Return(v) == [panicked |-> FALSE, ret |-> v]

\* The for loop of from_bytes over the pieces after the request line, from
\* piece i on: a piece that is one LF ends the head, every other piece is a
\* header line less its first byte, and &header[1..] of an empty piece
\* panics.  next is the piece data_split.next() gives after the loop.
RECURSIVE header_loop(_, _, _)
header_loop(data_split, i, headers) ==
    IF i > Len(data_split)
    THEN [panicked |-> FALSE, has_crlf |-> FALSE, headers |-> headers, next |-> i]
    ELSE IF data_split[i] = <<LF>>
    THEN [panicked |-> FALSE, has_crlf |-> TRUE, headers |-> headers, next |-> i + 1]
    ELSE IF data_split[i] = <<>>
    THEN [panicked |-> TRUE, has_crlf |-> FALSE, headers |-> headers, next |-> i]
    ELSE header_loop(data_split, i + 1, Append(headers, Tail(data_split[i])))

\* Request::from_bytes(data)
from_bytes(bytes) ==
    LET data_split == split(bytes, CR, <<>>, <<>>)
        request_line_split == split(data_split[1], SP, <<>>, <<>>)
        loop == header_loop(data_split, 2, <<>>)
    IN  IF Len(request_line_split) < 3 THEN Return(None)
        ELSE IF ~slice_starts_with(request_line_split[3], HTTP) THEN Return(None)
        ELSE IF loop.panicked THEN Panicked
        ELSE IF ~loop.has_crlf THEN Return(None)
        ELSE IF loop.next > Len(data_split) THEN Return(None)
        ELSE IF data_split[loop.next] = <<>> THEN Panicked
        ELSE Return(Some([method |-> request_line_split[1],
                          uri |-> request_line_split[2],
                          version |-> request_line_split[3],
                          headers |-> loop.headers,
                          body |-> Tail(data_split[loop.next])]))

\* u8::to_ascii_lowercase for the letters that matter
to_ascii_lowercase(b) ==
    CASE b = "P" -> "p"
      [] b = "R" -> "r"
      [] b = "O" -> "o"
      [] b = "X" -> "x"
      [] b = "Y" -> "y"
      [] OTHER -> b

\* The closure the direct relay filters with:
\* |header| header[..5].to_ascii_lowercase() != b"proxy"; header[..5] of a
\* shorter slice panics.
not_proxy(header) ==
    IF Len(header) < 5 THEN Panicked
    ELSE Return([i \in 1..5 |-> to_ascii_lowercase(header[i])] # <<"p", "r", "o", "x", "y">>)

\* The loop of headers_filter with that closure, from header i on.
RECURSIVE filter_loop(_, _, _)
filter_loop(hs, i, headers) ==
    IF i > Len(hs) THEN Return(headers)
    ELSE IF not_proxy(hs[i]).panicked THEN Panicked
    ELSE IF not_proxy(hs[i]).ret THEN filter_loop(hs, i + 1, Append(headers, hs[i]))
    ELSE filter_loop(hs, i + 1, headers)

\* http_request.headers_filter(|header| ...)
headers_filter(r) ==
    LET loop == filter_loop(r.headers, 1, <<>>)
    IN  IF loop.panicked THEN Panicked ELSE Return([r EXCEPT !.headers = loop.ret])

\* The bytes Request::send_to hands to write_vectored, which a socket with
\* room in its send buffer takes whole.
send_to(r) ==
    r.method \o <<SP>> \o r.uri \o <<SP>> \o r.version \o CRLF
        \o join_crlf(r.headers) \o CRLF \o r.body

GET == <<"G", "E", "T">>
CONNECT == <<"C", "O", "N", "N", "E", "C", "T">>
Version11 == <<"H", "T", "T", "P", "/", "1", ".", "1">>

\* Request targets: one in origin form and one in authority form.
RequestUris == {<<"/">>, <<"a", ":", "1">>}

\* Header lines: one the relay keeps, two it drops, and one of three bytes.
HeaderSlices ==
    {<<"H", "o", "s", "t", ":", "a">>,
     <<"P", "r", "o", "x", "y", "-", "A", ":", "b">>,
     <<"p", "r", "o", "x", "y">>,
     <<"A", ":", "b">>}

\* What follows the head: nothing, one byte, or two lines.
Bodies == {<<>>, <<"x">>, <<"x", CR, LF, "y">>}

\* Every header line with its CRLF.
RECURSIVE HeadLines(_)
HeadLines(hs) == IF hs = <<>> THEN <<>> ELSE hs[1] \o CRLF \o HeadLines(Tail(hs))

\* The bytes of a request: request line, header lines, blank line, body.
RequestBytes(m, u, hs, b) ==
    m \o <<SP>> \o u \o <<SP>> \o Version11 \o CRLF \o HeadLines(hs) \o CRLF \o b

\* Requests as clients send them.
WellFormed ==
    {RequestBytes(m, u, hs, b) :
        m \in {GET, CONNECT}, u \in RequestUris,
        hs \in BoundedSeq(HeaderSlices, MaxHeaderLines), b \in Bodies}

\* Bytes that are no request: nothing, a request line without version, a
\* head without its blank line, and a head with a bare CR in it.
Malformed ==
    {<<>>,
     GET \o <<SP, "/">> \o CRLFCRLF,
     GET \o <<SP, "/", SP>> \o Version11 \o CRLF,
     GET \o <<SP, "/", SP>> \o Version11 \o <<CR>> \o CRLFCRLF}

\* Request::from_bytes(&data)
ParseBytes ==
    /\ qpc = "bytes"
    /\ LET r == from_bytes(data)
       IN  /\ qpc' = IF r.panicked THEN "panicked"
                     ELSE IF r.ret = None THEN "rejected" ELSE "parsed"
           /\ request' = r.ret
    /\ UNCHANGED <<data, written>>
    /\ UNCHANGED <<early_vars, reg_vars, spider_vars, httproxy_vars, tree_vars>>

\* request.headers_filter(|header| header[..5].to_ascii_lowercase() != b"proxy")
FilterHeaders ==
    /\ qpc = "parsed"
    /\ LET r == headers_filter(request[1])
       IN  /\ qpc' = IF r.panicked THEN "panicked" ELSE "filtered"
           /\ request' = IF r.panicked THEN request ELSE Some(r.ret)
    /\ UNCHANGED <<data, written>>
    /\ UNCHANGED <<early_vars, reg_vars, spider_vars, httproxy_vars, tree_vars>>

\* request.send_to(&mut to), of the Request as parsed or as filtered.
SendTo ==
    /\ qpc \in {"parsed", "filtered"}
    /\ written' = Some(send_to(request[1]))
    /\ qpc' = IF qpc = "parsed" THEN "sent" ELSE "relayed"
    /\ UNCHANGED <<data, request>>
    /\ UNCHANGED <<early_vars, reg_vars, spider_vars, httproxy_vars, tree_vars>>

\* Some bytes are at hand.
RequestInit ==
    /\ NoEarly
    /\ NoReg
    /\ NoSpider
    /\ qpc = "bytes"
    /\ data \in WellFormed \cup Malformed
    /\ request = None
    /\ written = None
    /\ NoHTTProxy
    /\ NoTree

RequestNext ==
    \/ ParseBytes
    \/ FilterHeaders
    \/ SendTo

SpecRequest == RequestInit /\ [][RequestNext]_vars

\* C36: a request parsed by from_bytes and written by send_to with no header
\* filtered is written as the bytes it was parsed from.
C36_Original == qpc = "sent" => written = Some(data)

\* from_bytes returned a Request for data
Accepted == ~from_bytes(data).panicked /\ from_bytes(data).ret # None

\* A header line whose first five bytes are "proxy" in any case
IsProxyHeader(h) ==
    /\ Len(h) >= 5
    /\ [i \in 1..5 |-> to_ascii_lowercase(h[i])] = <<"p", "r", "o", "x", "y">>

\* The headers of hs that are no proxy headers, in their order
NonProxy(hs) == SelectSeq(hs, LAMBDA h : ~IsProxyHeader(h))

\* C37: for a request from_bytes accepts, the filtering of the direct relay
\* does not panic, whatever the length of the header lines, and leaves
\* the headers that do not start with "proxy", in their order.
C37_Original ==
    Accepted =>
        /\ qpc # "panicked"
        /\ qpc \in {"filtered", "relayed"} =>
               request[1].headers = NonProxy(from_bytes(data).ret[1].headers)

\* ------------------------------------------------------------------------
\* The HTTP proxy (http_proxy/src/httproxy.rs): handshake, the reply to a
\* failed handshake, and the tunnel of two pipes.
\* ------------------------------------------------------------------------

COLON == ":"
SLASH == "/"
AT == "@"

\* http_head_end(data): data.rfind(CRLFCRLF).is_some()
http_head_end(bytes) == \E i \in 1..(Len(bytes) - 3) : SubSeq(bytes, i, i + 3) = CRLFCRLF

\* extract_host(uri): the piece before the first slash or, when there are
\* two more pieces, the third piece after its last @; of that the piece
\* before the first colon and the piece after it, or "80".  No ? of it ever
\* returns None, as split yields at least one piece.
extract_host(uri) ==
    LET uri_split == split(uri, SLASH, <<>>, <<>>)
        authority == split(uri_split[3], AT, <<>>, <<>>)
        socket == IF Len(uri_split) >= 3 THEN authority[Len(authority)] ELSE uri_split[1]
        socket_split == split(socket, COLON, <<>>, <<>>)
        port == IF Len(socket_split) >= 2 THEN socket_split[2] ELSE <<"8", "0">>
    IN  Some(socket_split[1] \o <<COLON>> \o port)

\* str::split_once(':') of a server name extract_host made
split_once(name) ==
    LET parts == split(name, COLON, <<>>, <<>>) IN [name |-> parts[1], port |-> parts[2]]

\* port.parse() of a u16 is Ok
PortParses(port) ==
    /\ port # <<>>
    /\ \A i \in 1..Len(port) :
          port[i] \in {"0", "1", "2", "3", "4", "5", "6", "7", "8", "9"}

\* self.server_name().parse::<SocketAddr>() is Ok
SocketAddrParses(name) ==
    /\ split_once(name).name = <<"1", ".", "1", ".", "1", ".", "1">>
    /\ PortParses(split_once(name).port)

\* is_tunnel, were every request relayed directly
is_tunnel_Never(r) == r.method = <<>>

\* http_request.method == b"CONNECT"
is_tunnel(r) == r.method = CONNECT

\* The match of serve on proxy_error.kind(): the Status of the reply, and
\* none for Other.
reply_status(k) ==
    CASE k \in {"NotHttpRequest", "InvalidHost", "HostNotFound", "ReadIo"} ->
             Some("400 Bad Request")
      [] k = "ConnectIo" -> Some("502 Bad Gateway")
      [] k = "ConnectTimeout" -> Some("504 Gateway Timeout")
      [] k = "ReadTimeout" -> Some("408 Request Timeout")
      [] OTHER -> None

\* What the client sends after the head.
Payload == <<"x", "y">>

\* The heads clients send: a CONNECT, a GET in absolute form with a header to
\* keep and one to drop, a GET in origin form, a GET with a header line of
\* three bytes, a CONNECT to an IP, a CONNECT with a port that is no number,
\* a head with a bare CR, and a request line without version.
ConnectHead == CONNECT \o <<SP, "a", ":", "1", SP>> \o Version11 \o CRLFCRLF
AbsoluteHead ==
    GET \o <<SP, "h", "t", "t", "p", ":", "/", "/", "a", "/", SP>> \o Version11 \o CRLF
        \o <<"H", "o", "s", "t", ":", "a">> \o CRLF
        \o <<"P", "r", "o", "x", "y", "-", "A", ":", "b">> \o CRLFCRLF
OriginHead == GET \o <<SP, "/", SP>> \o Version11 \o CRLFCRLF
ShortHeaderHead ==
    GET \o <<SP, "h", "t", "t", "p", ":", "/", "/", "a", "/", SP>> \o Version11 \o CRLF
        \o <<"A", ":", "b">> \o CRLFCRLF
IpHead ==
    CONNECT \o <<SP, "1", ".", "1", ".", "1", ".", "1", ":", "1", SP>> \o Version11
        \o CRLFCRLF
BadPortHead == CONNECT \o <<SP, "a", ":", "x", SP>> \o Version11 \o CRLFCRLF
BareCrHead == GET \o <<SP, "/", SP>> \o Version11 \o <<CR>> \o CRLFCRLF
NoVersionHead == GET \o <<SP, "/">> \o CRLFCRLF

\* What a client sends, as the chunks its reads return: a head alone, with
\* more bytes in the same chunk or in a later one, or in two chunks; a
\* client may also send nothing, or a part of a head.
ClientScripts ==
    {<<h>> : h \in {ConnectHead, AbsoluteHead, OriginHead, ShortHeaderHead, IpHead,
                    BadPortHead, BareCrHead, NoVersionHead}}
        \cup {<<h \o Payload>> : h \in {ConnectHead, AbsoluteHead}}
        \cup {<<h, Payload>> : h \in {ConnectHead, AbsoluteHead}}
        \cup {<<SubSeq(h, 1, 5), SubSeq(h, 6, Len(h)), Payload>> :
                 h \in {ConnectHead, AbsoluteHead}}
        \cup {<<>>, <<GET>>}

\* What the server sends, as the chunks the reads of the pipe return.
ServerScripts == {<<>>, <<<<"s">>>>, <<<<"s">>, <<"t">>>>}

\* handshake returns Err(ProxyError::new(k)); c is why.
HandshakeFails(k, c) ==
    /\ ppc' = "failed"
    /\ kind' = Some(k)
    /\ cause' = Some(c)

\* The name extract_host made has no hostname
NoHostname(name) == split_once(name).name = <<>>

\* read_until: incoming.read_buf(buf) returns the next chunk of the client,
\* and the loop ends once buf holds the end of a head.
ReadClient ==
    /\ ppc = "reading"
    /\ client_tx # <<>>
    /\ buf' = buf \o Head(client_tx)
    /\ client_sent' = client_sent \o Head(client_tx)
    /\ client_tx' = Tail(client_tx)
    /\ ppc' = IF http_head_end(buf') THEN "parse" ELSE "reading"
    /\ UNCHANGED <<dns_on_web, http_request, server_name, server_addr, server, kind, replies,
                   server_rx, server_tx, client_rx, tunnel, server_sent, cause>>
    /\ UNCHANGED <<early_vars, reg_vars, spider_vars, request_vars, tree_vars>>

\* read_until: read_buf returns Ok(0), the client has closed its side; the
\* loop ends and handshake goes on with what buf holds.
ReadEof ==
    /\ ppc = "reading"
    /\ client_tx = <<>>
    /\ ppc' = "parse"
    /\ UNCHANGED <<dns_on_web, client_tx, buf, http_request, server_name, server_addr, server,
                   kind, replies, server_rx, server_tx, client_rx, tunnel, client_sent,
                   server_sent, cause>>
    /\ UNCHANGED <<early_vars, reg_vars, spider_vars, request_vars, tree_vars>>

\* read_until: no read within 6 seconds.
ReadTimesOut ==
    /\ ppc = "reading"
    /\ HandshakeFails("ReadTimeout", "client read timeout")
    /\ UNCHANGED <<dns_on_web, client_tx, buf, http_request, server_name, server_addr, server,
                   replies, server_rx, server_tx, client_rx, tunnel, client_sent,
                   server_sent>>
    /\ UNCHANGED <<early_vars, reg_vars, spider_vars, request_vars, tree_vars>>

\* read_until: read_buf returns an I/O error.
ReadErrs ==
    /\ ppc = "reading"
    /\ HandshakeFails("ReadIo", "client read io")
    /\ UNCHANGED <<dns_on_web, client_tx, buf, http_request, server_name, server_addr, server,
                   replies, server_rx, server_tx, client_rx, tunnel, client_sent,
                   server_sent>>
    /\ UNCHANGED <<early_vars, reg_vars, spider_vars, request_vars, tree_vars>>

\* Request::from_bytes(&buf) and extract_server_addr up to its lookup: a
\* panic of from_bytes aborts the task; without dns_on_web, and for a name
\* that parses as a SocketAddr, the server address is at hand.
ParseHead ==
    /\ ppc = "parse"
    /\ LET r == from_bytes(buf)
           server_host == extract_host(r.ret[1].uri)
       IN  IF r.panicked
           THEN /\ ppc' = "panicked"
                /\ cause' = Some("unparsable request")
                /\ UNCHANGED <<http_request, server_name, server_addr, kind>>
           ELSE IF r.ret = None
           THEN /\ HandshakeFails("NotHttpRequest", "unparsable request")
                /\ UNCHANGED <<http_request, server_name, server_addr>>
           ELSE IF server_host = None
           THEN /\ HandshakeFails("InvalidHost", "invalid host")
                /\ http_request' = r.ret
                /\ UNCHANGED <<server_name, server_addr>>
           ELSE /\ http_request' = r.ret
                /\ server_name' = server_host
                /\ server_addr' =
                       IF ~dns_on_web THEN Some("ServerName")
                       ELSE IF SocketAddrParses(server_host[1]) THEN Some("SocketAddr")
                       ELSE None
                /\ ppc' = IF dns_on_web /\ ~SocketAddrParses(server_host[1])
                          THEN "dns" ELSE "connect"
                /\ UNCHANGED <<kind, cause>>
    /\ UNCHANGED <<dns_on_web, client_tx, buf, server, replies, server_rx, server_tx,
                   client_rx, tunnel, client_sent, server_sent>>
    /\ UNCHANGED <<early_vars, reg_vars, spider_vars, request_vars, tree_vars>>

\* extract_server_addr with dns_on_web: RESOLVER.lookup_ip(name) finds an
\* IP or none, and then port.parse().unwrap() panics for a port that is no
\* number.
WebDns(found) ==
    /\ ppc = "dns"
    /\ IF ~found
       THEN /\ HandshakeFails("HostNotFound",
                              IF NoHostname(server_name[1]) THEN "invalid host"
                              ELSE "host not found")
            /\ UNCHANGED server_addr
       ELSE IF ~PortParses(split_once(server_name[1]).port)
       THEN /\ ppc' = "panicked"
            /\ UNCHANGED <<server_addr, kind, cause>>
       ELSE /\ ppc' = "connect"
            /\ server_addr' = Some("SocketAddr")
            /\ UNCHANGED <<kind, cause>>
    /\ UNCHANGED <<dns_on_web, client_tx, buf, http_request, server_name, server, replies,
                   server_rx, server_tx, client_rx, tunnel, client_sent, server_sent>>
    /\ UNCHANGED <<early_vars, reg_vars, spider_vars, request_vars, tree_vars>>

\* The server can be reached: it is known by its address, or by a name that
\* has a hostname and a port.
Reachable ==
    \/ server_addr = Some("SocketAddr")
    \/ /\ ~NoHostname(server_name[1])
       /\ PortParses(split_once(server_name[1]).port)

\* tokio_timeout(20, TcpStream::connect(..)): the server is connected, the
\* 20 seconds pass, or connect returns an I/O error, as it does at once for
\* a name without hostname or port.
ConnectServer(outcome) ==
    /\ ppc = "connect"
    /\ outcome # "io" => Reachable
    /\ CASE outcome = "ok" ->
              /\ server' = Some("connected")
              /\ ppc' = IF is_tunnel(http_request[1]) THEN "reply" ELSE "relay"
              /\ UNCHANGED <<kind, cause>>
         [] outcome = "timeout" ->
              /\ HandshakeFails("ConnectTimeout", "connect timeout")
              /\ UNCHANGED server
         [] OTHER ->
              /\ HandshakeFails("ConnectIo",
                                IF server_addr = Some("ServerName")
                                   /\ NoHostname(server_name[1])
                                THEN "invalid host" ELSE "connect io")
              /\ UNCHANGED server
    /\ UNCHANGED <<dns_on_web, client_tx, buf, http_request, server_name, server_addr,
                   replies, server_rx, server_tx, client_rx, tunnel, client_sent,
                   server_sent>>
    /\ UNCHANGED <<early_vars, reg_vars, spider_vars, request_vars, tree_vars>>

\* Both pipes of the tunnel run.
Piping == [up |-> "running", down |-> "running"]

\* "Establish HTTP proxy tunnel": RespondBuilder::default().nobody() is sent
\* to the client, 200 OK; the write goes well or not.
ReplyEstablished(ok) ==
    /\ ppc = "reply"
    /\ replies' = Append(replies, [status |-> "200 OK", ok |-> ok])
    /\ IF ok
       THEN /\ ppc' = "tunnel"
            /\ tunnel' = Some(Piping)
            /\ UNCHANGED <<kind, cause>>
       ELSE /\ HandshakeFails("ConnectIo", "reply write io")
            /\ UNCHANGED tunnel
    /\ UNCHANGED <<dns_on_web, client_tx, buf, http_request, server_name, server_addr, server,
                   server_rx, server_tx, client_rx, client_sent, server_sent>>
    /\ UNCHANGED <<early_vars, reg_vars, spider_vars, request_vars, tree_vars>>

\* "Direct Relay": the request less its proxy headers is sent to the
\* server; the filter may panic, and the write goes well or not.
DirectRelay(ok) ==
    /\ ppc = "relay"
    /\ LET r == headers_filter(http_request[1])
       IN  IF r.panicked
           THEN /\ ppc' = "panicked"
                /\ UNCHANGED <<server_rx, tunnel, kind, cause>>
           ELSE IF ok
           THEN /\ server_rx' = server_rx \o send_to(r.ret)
                /\ ppc' = "tunnel"
                /\ tunnel' = Some(Piping)
                /\ UNCHANGED <<kind, cause>>
           ELSE /\ HandshakeFails("ConnectIo", "relay write io")
                /\ UNCHANGED <<server_rx, tunnel>>
    /\ UNCHANGED <<dns_on_web, client_tx, buf, http_request, server_name, server_addr, server,
                   replies, client_rx, server_tx, client_sent, server_sent>>
    /\ UNCHANGED <<early_vars, reg_vars, spider_vars, request_vars, tree_vars>>

\* serve on Err(proxy_error): the reply chosen by the kind is sent to the
\* client, and how that went is logged.
ReplyFailure(ok) ==
    /\ ppc = "failed"
    /\ replies' = IF reply_status(kind[1]) = None THEN replies
                  ELSE Append(replies, [status |-> reply_status(kind[1])[1], ok |-> ok])
    /\ ppc' = "closed"
    /\ UNCHANGED <<dns_on_web, client_tx, buf, http_request, server_name, server_addr, server,
                   kind, server_rx, server_tx, client_rx, tunnel, client_sent, server_sent,
                   cause>>
    /\ UNCHANGED <<early_vars, reg_vars, spider_vars, request_vars, tree_vars>>

\* pipe(client_reader, server_writer): a chunk of the client is read and
\* written whole to the server.
PipeUp ==
    /\ ppc = "tunnel"
    /\ tunnel[1].up = "running"
    /\ client_tx # <<>>
    /\ server_rx' = server_rx \o Head(client_tx)
    /\ client_sent' = client_sent \o Head(client_tx)
    /\ client_tx' = Tail(client_tx)
    /\ UNCHANGED <<ppc, dns_on_web, buf, http_request, server_name, server_addr, server, kind,
                   replies, server_tx, client_rx, tunnel, server_sent, cause>>
    /\ UNCHANGED <<early_vars, reg_vars, spider_vars, request_vars, tree_vars>>

\* pipe(client_reader, server_writer): the read returns 0, the write half
\* to the server is shut down and this pipe returns Ok.
PipeUpEof ==
    /\ ppc = "tunnel"
    /\ tunnel[1].up = "running"
    /\ client_tx = <<>>
    /\ tunnel' = Some([tunnel[1] EXCEPT !.up = "shutdown"])
    /\ UNCHANGED <<ppc, dns_on_web, client_tx, buf, http_request, server_name, server_addr,
                   server, kind, replies, server_rx, server_tx, client_rx, client_sent,
                   server_sent, cause>>
    /\ UNCHANGED <<early_vars, reg_vars, spider_vars, request_vars, tree_vars>>

\* pipe(server_reader, client_writer): a chunk of the server is read and
\* written whole to the client.
PipeDown ==
    /\ ppc = "tunnel"
    /\ tunnel[1].down = "running"
    /\ server_tx # <<>>
    /\ client_rx' = client_rx \o Head(server_tx)
    /\ server_sent' = server_sent \o Head(server_tx)
    /\ server_tx' = Tail(server_tx)
    /\ UNCHANGED <<ppc, dns_on_web, client_tx, buf, http_request, server_name, server_addr,
                   server, kind, replies, server_rx, tunnel, client_sent, cause>>
    /\ UNCHANGED <<early_vars, reg_vars, spider_vars, request_vars, tree_vars>>

\* pipe(server_reader, client_writer): the read returns 0, the write half
\* to the client is shut down and this pipe returns Ok.
PipeDownEof ==
    /\ ppc = "tunnel"
    /\ tunnel[1].down = "running"
    /\ server_tx = <<>>
    /\ tunnel' = Some([tunnel[1] EXCEPT !.down = "shutdown"])
    /\ UNCHANGED <<ppc, dns_on_web, client_tx, buf, http_request, server_name, server_addr,
                   server, kind, replies, server_rx, server_tx, client_rx, client_sent,
                   server_sent, cause>>
    /\ UNCHANGED <<early_vars, reg_vars, spider_vars, request_vars, tree_vars>>

\* A read, a write or a shutdown of one pipe returns an I/O error:
\* try_join! returns it and drops the other pipe.
PipeErrs(dir) ==
    /\ ppc = "tunnel"
    /\ tunnel[1][dir] = "running"
    /\ tunnel' = Some([d \in {"up", "down"} |->
                          IF d = dir THEN "failed"
                          ELSE IF tunnel[1][d] = "running" THEN "dropped"
                          ELSE tunnel[1][d]])
    /\ ppc' = "closed"
    /\ UNCHANGED <<dns_on_web, client_tx, buf, http_request, server_name, server_addr, server,
                   kind, replies, server_rx, server_tx, client_rx, client_sent, server_sent,
                   cause>>
    /\ UNCHANGED <<early_vars, reg_vars, spider_vars, request_vars, tree_vars>>

\* Both pipes returned Ok: try_join! returns and serve ends.
TunnelEnds ==
    /\ ppc = "tunnel"
    /\ tunnel[1].up = "shutdown"
    /\ tunnel[1].down = "shutdown"
    /\ ppc' = "closed"
    /\ UNCHANGED <<dns_on_web, client_tx, buf, http_request, server_name, server_addr, server,
                   kind, replies, server_rx, server_tx, client_rx, tunnel, client_sent,
                   server_sent, cause>>
    /\ UNCHANGED <<early_vars, reg_vars, spider_vars, request_vars, tree_vars>>

\* HTTProxy::new(client, addr), with dns_on_web() or without, serves a
\* client in front of a server.
HTTProxyInit ==
    /\ NoEarly
    /\ NoReg
    /\ NoSpider
    /\ NoRequestBytes
    /\ ppc = "reading"
    /\ dns_on_web \in BOOLEAN
    /\ client_tx \in ClientScripts
    /\ buf = <<>>
    /\ http_request = None
    /\ server_name = None
    /\ server_addr = None
    /\ server = None
    /\ kind = None
    /\ replies = <<>>
    /\ server_rx = <<>>
    /\ server_tx \in ServerScripts
    /\ client_rx = <<>>
    /\ tunnel = None
    /\ client_sent = <<>>
    /\ server_sent = <<>>
    /\ cause = None
    /\ NoTree

HTTProxyNext ==
    \/ ReadClient
    \/ ReadEof
    \/ ReadTimesOut
    \/ ReadErrs
    \/ ParseHead
    \/ \E found \in BOOLEAN : WebDns(found)
    \/ \E outcome \in {"ok", "timeout", "io"} : ConnectServer(outcome)
    \/ \E ok \in BOOLEAN : ReplyEstablished(ok)
    \/ \E ok \in BOOLEAN : DirectRelay(ok)
    \/ \E ok \in BOOLEAN : ReplyFailure(ok)
    \/ PipeUp
    \/ PipeUpEof
    \/ PipeDown
    \/ PipeDownEof
    \/ \E dir \in {"up", "down"} : PipeErrs(dir)
    \/ TunnelEnds

SpecHTTProxy == HTTProxyInit /\ [][HTTProxyNext]_vars

\* The causes of a failed handshake C33 names, and the reply it names for
\* each
NamedCauses ==
    {"unparsable request", "invalid host", "host not found", "client read io",
     "client read timeout", "connect io", "connect timeout"}

ExpectedStatus(c) ==
    CASE c \in {"unparsable request", "invalid host", "host not found", "client read io"} ->
             "400 Bad Request"
      [] c = "client read timeout" -> "408 Request Timeout"
      [] c = "connect io" -> "502 Bad Gateway"
      [] OTHER -> "504 Gateway Timeout"

\* C33: once serve is over after a handshake that failed for one of the
\* causes named, the client was sent exactly one reply, the one named for
\* the cause, and no tunnel was started.
C33_Original ==
    (ppc \in {"closed", "panicked"} /\ cause # None /\ cause[1] \in NamedCauses) =>
        /\ Len(replies) = 1
        /\ replies[1].status = ExpectedStatus(cause[1])
        /\ tunnel = None

\* The request line of r with its CRLF
RequestLine(r) == r.method \o <<SP>> \o r.uri \o <<SP>> \o r.version \o CRLF

\* p is the start of s
IsPrefix(p, s) == Len(p) <= Len(s) /\ SubSeq(s, 1, Len(p)) = p

\* p is the end of s
IsSuffix(p, s) == Len(p) <= Len(s) /\ SubSeq(s, Len(s) - Len(p) + 1, Len(s)) = p

\* A 200 OK was written to the client
Replied200 == \E i \in 1..Len(replies) : replies[i].status = "200 OK"

\* handshake parsed a CONNECT request
IsConnect == http_request # None /\ http_request[1].method = CONNECT

AfterHead(bytes) ==
    LET ends == {i \in 1..(Len(bytes) - 3) : SubSeq(bytes, i, i + 3) = CRLFCRLF}
        first == CHOOSE i \in ends : \A j \in ends : i <= j
    IN  IF ends = {} THEN <<>> ELSE SubSeq(bytes, first + 4, Len(bytes))

\* Both pipes have returned Ok
TunnelDone ==
    /\ ppc = "closed"
    /\ tunnel = Some([up |-> "shutdown", down |-> "shutdown"])

\* C35: when both pipes have ended at their end of stream, the server has
\* got every byte the client sent after the head, in order and once, and
\* the client every byte the server sent.
C35_Original ==
    TunnelDone =>
        /\ IF IsConnect THEN server_rx = AfterHead(client_sent)
           ELSE IsSuffix(AfterHead(client_sent), server_rx)
        /\ client_rx = server_sent

\* ------------------------------------------------------------------------
\* reverse_proxy (handler.rs) again: how a request can end.
\* ------------------------------------------------------------------------

\* C38: reverse_proxy never panics, whatever the Host header holds, and
\* forward is entered only with a head that has a Host header.
C38_Original ==
    /\ hpc # "panicked"
    /\ fwd # None => HeaderGet(fwd[1].head.headers, "host") # None

\* ------------------------------------------------------------------------
\* Address resolution over the configuration: DnsResolve for Config, Group
\* and Dns (config/resolver.rs over config/format.rs), and Hosts::lookup_all
\* over Dns::lookup (config.rs).
\* ------------------------------------------------------------------------

\* Groups of a Config that is resolved.
MaxTreeGroups == 2

\* Mappings of one Group, and of Hosts.
MaxTreeDns == 1

\* The Mappings of a Group: enabled or not, with an address or without.
TreeDnsSet ==
    [enable : {None, Some(FALSE)}, enable_sni : {None}, hostname : {"a.test"}, sni : {None},
     address : {None, Some("2.2.2.2")}]

\* The Groups of a Config: enabled or not.
TreeGroupSet ==
    [enable : {None, Some(FALSE)}, enable_sni : {Some(TRUE)}, name : {"g"}, sni : {None},
     dnses : BoundedSeq(TreeDnsSet, MaxTreeDns)]

\* The Configs resolve() is called on: enabled or not.
TreeConfigs ==
    [enable : {None, Some(FALSE)}, enable_sni : {None},
     groups : BoundedSeq(TreeGroupSet, MaxTreeGroups)]

\* The Hosts lookup_all() is called on.
HostsSet ==
    [dns : {None} \cup
           {Some(s) : s \in BoundedSeq([hostname : {"a.test"},
                                         address : {None, Some("2.2.2.2")}], MaxTreeDns)}]

\* What ip_lookup_on_ipaddress_com returns: an error, a page where the
\* pattern ipaddress.com/ipv4/d.d.d.d matches nowhere, or one where it does.
TreeAnswers == {Err("reqwest"), Ok(Html(None)), Ok(Html(Some("1.1.1.1")))}

\* capture_ip_from_html_plain(html): the text the pattern captured, as it is.
capture_ip_from_html_plain(html) == html.capture

\* Config::group_mut
group_mut(c) == IF Enable(c) THEN Some(c.groups) ELSE None

\* Group::dns_mut
dns_mut(g) == IF Enable(g) THEN Some(g.dnses) ELSE None

\* hostname_ref, were the hostname given for a disabled Mapping too
hostname_ref_Always(d) == Some(d.hostname)

\* Dns::hostname_ref
hostname_ref(d) == IF Enable(d) THEN Some(d.hostname) ELSE None

\* Dns::address_ref
address_ref(d) == d.address

\* Dns::set_address
set_address(d, address) == [d EXCEPT !.address = Some(address)]

\* <Dns as DnsResolve>::resolve awaits a lookup
AwaitsLookup(d) == hostname_ref(d) # None /\ address_ref(d) = None

\* <Dns as DnsResolve>::resolve from the answer of its lookup on: the
\* Mapping it leaves and what it returns.
DnsResolve(d, out) ==
    IF ~out.ok THEN [dns |-> d, ret |-> out]
    ELSE IF capture_ip_from_html_plain(out.val) = None THEN [dns |-> d, ret |-> Ok("()")]
    ELSE [dns |-> set_address(d, capture_ip_from_html_plain(out.val)[1]), ret |-> Ok("()")]

\* Dns::lookup of config.rs from the answer of its lookup on: the Dns it
\* leaves; it returns Ok whatever the answer.
DnsLookup(d, out) ==
    IF out.ok /\ capture_ip_from_html_plain(out.val) # None
    THEN [d EXCEPT !.address = Some(capture_ip_from_html_plain(out.val)[1])]
    ELSE d

\* The Mappings of the Config whose resolve awaits its lookup: join_all
\* polls the resolve of every Group group_mut gives, and that of every
\* Mapping dns_mut gives.
PendingResolves ==
    IF config = None \/ group_mut(config[1]) = None THEN {}
    ELSE {p \in (1..Len(config[1].groups)) \X (1..MaxTreeDns) :
             /\ dns_mut(config[1].groups[p[1]]) # None
             /\ p[2] <= Len(config[1].groups[p[1]].dnses)
             /\ AwaitsLookup(config[1].groups[p[1]].dnses[p[2]])
             /\ p \notin DOMAIN answers}

\* The Dns of the Hosts whose lookup awaits its answer.
PendingLookups ==
    IF hosts = None \/ hosts[1].dns = None THEN {}
    ELSE {p \in {0} \X (1..Len(hosts[1].dns[1])) :
             /\ hosts[1].dns[1][p[2]].address = None
             /\ p \notin DOMAIN answers}

\* answers with the answer of the lookup at p
Answered(p, out) == [q \in DOMAIN answers \cup {p} |-> IF q = p THEN out ELSE answers[q]]

\* The lookup of the Mapping at p answers and its resolve ends.
ResolveAnswered(p, out) ==
    /\ tpc = "resolving"
    /\ p \in PendingResolves
    /\ config' = Some([config[1] EXCEPT !.groups[p[1]].dnses[p[2]] = DnsResolve(@, out).dns])
    /\ answers' = Answered(p, out)
    /\ UNCHANGED <<tpc, hosts, before, resolved>>
    /\ UNCHANGED <<early_vars, reg_vars, spider_vars, request_vars, httproxy_vars>>

\* Every resolve has ended: try_for_each returns the first error, if any.
ResolveReturns ==
    /\ tpc = "resolving"
    /\ config # None
    /\ PendingResolves = {}
    /\ resolved' = IF \E p \in DOMAIN answers : ~answers[p].ok
                   THEN Some(Err("reqwest")) ELSE Some(Ok("()"))
    /\ tpc' = "done"
    /\ UNCHANGED <<config, hosts, before, answers>>
    /\ UNCHANGED <<early_vars, reg_vars, spider_vars, request_vars, httproxy_vars>>

\* The lookup of the Dns at p of the Hosts answers.
LookupAnswered(p, out) ==
    /\ tpc = "resolving"
    /\ p \in PendingLookups
    /\ hosts' = Some([hosts[1] EXCEPT !.dns[1][p[2]] = DnsLookup(@, out)])
    /\ answers' = Answered(p, out)
    /\ UNCHANGED <<tpc, config, before, resolved>>
    /\ UNCHANGED <<early_vars, reg_vars, spider_vars, request_vars, httproxy_vars>>

\* Every lookup has ended: lookup_all returns Ok.
LookupAllReturns ==
    /\ tpc = "resolving"
    /\ hosts # None
    /\ PendingLookups = {}
    /\ resolved' = Some(Ok("()"))
    /\ tpc' = "done"
    /\ UNCHANGED <<config, hosts, before, answers>>
    /\ UNCHANGED <<early_vars, reg_vars, spider_vars, request_vars, httproxy_vars>>

\* config.resolve() is called on a Config, or hosts.lookup_all() on Hosts.
TreeInit ==
    /\ NoEarly
    /\ NoReg
    /\ NoSpider
    /\ NoRequestBytes
    /\ NoHTTProxy
    /\ tpc = "resolving"
    /\ \/ config \in {Some(c) : c \in TreeConfigs} /\ hosts = None /\ before = config
       \/ hosts \in {Some(h) : h \in HostsSet} /\ config = None /\ before = hosts
    /\ answers = <<>>
    /\ resolved = None

TreeNext ==
    \/ \E p \in PendingResolves, out \in TreeAnswers : ResolveAnswered(p, out)
    \/ ResolveReturns
    \/ \E p \in PendingLookups, out \in TreeAnswers : LookupAnswered(p, out)
    \/ LookupAllReturns

SpecTree == TreeInit /\ [][TreeNext]_vars

\* d is d0 but for its address
SameButAddress(d, d0) == [d EXCEPT !.address = d0.address] = d0

\* The lookup at p was made and its answer holds no IP
AnsweredNoIp(p) ==
    /\ p \in DOMAIN answers
    /\ ~answers[p].ok \/ answers[p].val.capture = None

\* C39: of the Config (and of the Hosts) only the addresses change; a
\* Mapping that had an address was not looked up and has that address; a
\* Mapping that is disabled or in a disabled Group or under a disabled root
\* was not looked up and has the address it had; a Mapping whose lookup
\* answered without an IP has no address.
C39_OnlyUnsetAddressesChange ==
    /\ config # None =>
           LET c == config[1]
               c0 == before[1]
           IN  /\ [c EXCEPT !.groups = c0.groups] = c0
               /\ Len(c.groups) = Len(c0.groups)
               /\ \A g \in 1..Len(c0.groups) :
                     /\ [c.groups[g] EXCEPT !.dnses = c0.groups[g].dnses] = c0.groups[g]
                     /\ Len(c.groups[g].dnses) = Len(c0.groups[g].dnses)
                     /\ \A d \in 1..Len(c0.groups[g].dnses) :
                           LET m == c.groups[g].dnses[d]
                               m0 == c0.groups[g].dnses[d]
                           IN  /\ SameButAddress(m, m0)
                               /\ m0.address # None =>
                                      /\ <<g, d>> \notin DOMAIN answers
                                      /\ m.address = m0.address
                               /\ (~Enable(m0) \/ ~Enable(c0.groups[g]) \/ ~Enable(c0)) =>
                                      /\ <<g, d>> \notin DOMAIN answers
                                      /\ m.address = m0.address
                               /\ AnsweredNoIp(<<g, d>>) => m.address = None
    /\ (hosts # None /\ hosts[1].dns # None) =>
           /\ before[1].dns # None
           /\ Len(hosts[1].dns[1]) = Len(before[1].dns[1])
           /\ \A d \in 1..Len(before[1].dns[1]) :
                 LET m == hosts[1].dns[1][d]
                     m0 == before[1].dns[1][d]
                 IN  /\ SameButAddress(m, m0)
                     /\ m0.address # None =>
                            /\ <<0, d>> \notin DOMAIN answers
                            /\ m.address = m0.address
                     /\ AnsweredNoIp(<<0, d>>) => m.address = None
    /\ (hosts # None /\ hosts[1].dns = None) => hosts = before

\* C39 happens: resolve has returned; the lookup of one Mapping gave it its
\* address, and another Mapping, disabled or with an address, was not
\* looked up and is as it was.
C39_Witness ==
    /\ tpc = "done"
    /\ config # None
    /\ \E p \in DOMAIN answers :
          /\ answers[p].ok
          /\ config[1].groups[p[1]].dnses[p[2]].address = Some("1.1.1.1")
    /\ \E g \in 1..Len(config[1].groups) :
          /\ config[1].groups[g].dnses # <<>>
          /\ <<g, 1>> \notin DOMAIN answers
          /\ config[1].groups[g].dnses[1] = before[1].groups[g].dnses[1]

====
